---- MODULE Spec2Model ----
(***************************************************************************)
(* A model of the pantomime actor runtime and its stream layer.            *)
(*                                                                         *)
(*   MailboxSpec   the crossbeam-channel mailbox (src/mailbox/channel.rs)  *)
(*   DetachedSpec  the detached stream boundary and its two neighbours     *)
(*                 (src/stream/flow/detached.rs)                           *)
(*   RuntimeSpec   spawning, shard scheduling, the cell lifecycle and      *)
(*                 watches (src/actor/system.rs; shard, cell and ActorRef  *)
(*                 after sections 4.3 and 4.4 of the specification)        *)
(***************************************************************************)
EXTENDS Integers, Sequences, FiniteSets, TLC

(***************************************************************************)
(* Bounds of the mailbox model.                                            *)
(***************************************************************************)
MaxThreads == 2
MaxAppends == 2
MaxAppenders == 2

Threads == 1..MaxThreads
AppenderIds == 1..MaxAppenders

VARIABLES
    chan,          \* messages held by the unbounded channel, oldest first
    mbAlive,       \* the CrossbeamChannelMailboxLogic (receive end) exists
    appenders,     \* appender handles handed out so far
    tcount,        \* per thread: number of append() calls that returned
    tstat,         \* per thread: "run" or "panicked"
    appended,      \* messages whose append() returned while the mailbox existed
    retrieved,     \* values returned as Some(m) by retrieve(), in order
    lastRetrieve,  \* outcome of the latest retrieve(): what it returned and
                   \* how many appended messages were unretrieved at the call
    discarded      \* appends made after the mailbox was dropped

mbVars == <<chan, mbAlive, appenders, tcount, tstat, appended, retrieved,
            lastRetrieve, discarded>>

(***************************************************************************)
(* The detached stream boundary (src/stream/flow/detached.rs).             *)
(***************************************************************************)
BUFFER_SIZE == 2

\* Bounds of the detached model: elements the upstream can produce and the
\* largest demand of one downstream request.
MaxSrc == 4
MaxDemand == 2

VARIABLES
    buffer,        \* DetachedActor.buffer
    producer,      \* DetachedActor.producer is Some (upstream handle parked)
    consumer,      \* DetachedActor.consumer is Some (downstream handle parked)
    demand,        \* DetachedActor.demand
    cancelled,     \* DetachedActor.cancelled
    completed,     \* DetachedActor.completed
    failed,        \* DetachedActor.failed is Some
    inbox,         \* mailbox of the detached actor
    dpc,           \* position of the actor: "idle", or "tellSelf" inside the
                   \* Produced handler before its tell to itself
    reqTask,       \* a task calling producer.request(1) waits on the dispatcher
    prodTask,      \* elements of the consumer.produced(elem) task waiting on
                   \* the dispatcher (at most one)
    up,            \* upstream neighbour: "attached", "idle", "requested",
                   \* "done", "cancelled"
    down,          \* downstream neighbour: "unattached", "holding", "waiting",
                   \* "cancelled", "completed", "failed"
    produced,      \* elements the upstream has handed over, in order
    upRequests,    \* number of request(1) calls that reached the upstream
    downEvents,    \* calls made on the downstream consumer, each with the
                   \* buffer length and the cancel status at the call
    downDemand     \* total demand of the Producer::request calls made by the
                   \* downstream

detVars == <<buffer, producer, consumer, demand, cancelled, completed, failed,
             inbox, dpc, reqTask, prodTask, up, down, produced, upRequests,
             downEvents, downDemand>>

(***************************************************************************)
(* The actor runtime.                                                      *)
(***************************************************************************)
\* Bounds of the runtime model: actors spawned, shards of the context,
\* dispatcher workers, telling threads, tells per thread, and the number of
\* messages one visit of a cell may process.
MaxActors == 3
NumShards == 2
NumWorkers == 2
NumSenders == 1
MaxSends == 1
Throughput == 1

\* The id the user context hands out first.
FirstUserId == 1

\* The first id of the context the timer and the watcher are spawned from.
FirstSystemId == 100

\* Drain and stop requests, user actors spawned and receive timeouts of
\* join() that are looked at.
MaxRequests == 2
MaxSpawns == 3
MaxTimeouts == 1

\* Threads that call spawn_actor at the same time, the ids the user context
\* hands out, and the calls of schedule_thunk that are looked at.
NumSpawners == 2
MaxIds == 101
MaxSchedules == 2

ActorIds == FirstUserId..(FirstUserId + MaxActors - 1)
ShardIds == 0..(NumShards - 1)
Workers == 1..NumWorkers
Senders == 1..NumSenders

(***************************************************************************)
(* A stream of Logic stages: Iterator, Filter and TakeWhile before a sink. *)
(***************************************************************************)
\* Bounds of the stream model: the values an element can have and the
\* length of the iterator.
MaxElem == 2
MaxIter == 3

Elems == 1..MaxElem

\* The stages in stream order; the sink follows the last one.
IteratorStage == 1
FilterStage == 2
TakeWhileStage == 3
SinkStage == 4
Stages == IteratorStage..TakeWhileStage

VARIABLES
    part,          \* what the stream under observation is made of: "logic"
                   \* stages or the "detached" boundary ("none": no stream)
    iterator,      \* Iterator.iterator: the elements still to come
    filter,        \* Filter.filter: the elements the predicate accepts
    while_fn,      \* TakeWhile.while_fn: the elements the predicate accepts
    source,        \* the elements of the iterator when the stream started
    stage,         \* per stage: "none", "running" or "done" (it terminated)
    events,        \* events the stream still has to deliver, in order
    sink,          \* "none", "idle", "waiting" (it pulled), "cancelled",
                   \* "completed"
    seen,          \* per stage and for the sink: elements it was pushed
    pushed,        \* per stage: elements it pushed downstream
    pulls,         \* per stage: Pull actions it emitted; for the sink too
    pulled,        \* per stage: Pulled events it received
    last           \* the last event a stage received and its reaction

lgVars == <<part, iterator, filter, while_fn, source, stage, events, sink,
            seen, pushed, pulls, pulled, last>>

VARIABLES
    next_id,       \* ActorSystemContext.next_id of the user context
    cell,          \* per actor id: lifecycle state, shard, queued signals,
                   \* mailbox and watcher set
    scheduled,     \* per shard: the scheduled flag
    runQueue,      \* per shard: run tasks waiting on the dispatcher
    worker,        \* per dispatcher worker: what it is executing
    sending,       \* per telling thread: the cell it has appended to and not
                   \* yet scheduled (0: not inside tell)
    sent,          \* per telling thread: tells started
    obs,           \* per actor: what its behaviour has observed so far
    notified,      \* per (watcher, target): termination messages appended
                   \* to the mailbox of the watcher
    regs           \* per (watcher, target): "no", or how ctx.watch found the
                   \* target when it registered: "live" or "late"

rtVars == <<next_id, cell, scheduled, runQueue, worker, sending, sent, obs,
            notified, regs>>

VARIABLES
    next_ids,      \* per ActorSystemContext: its next_id
    refs,          \* the ActorRefs spawn_actor has returned
    channel,       \* the ActorSystemMsg sent and not yet received by join
    joined,        \* where the caller of join() is
    timeouts,      \* receive timeouts join() has seen
    received,      \* the ActorSystemMsg join() has received, in order
    requests,      \* drain and stop requests made so far
    timer_stops,   \* how often TimerMsg::Stop was told to the timer
    watcher_mail,  \* the mailbox of the watcher
    done_fns,      \* the completion callbacks the watcher holds
    registered,    \* the ids of the live user actors the watcher holds
    system_stopped, \* the watcher has stopped the system actors
    spawning,      \* per thread inside spawn_actor: the ActorRef it builds
    active,        \* the context the ActiveActorSystem holds
    timer_schedules, \* how often TimerMsg::Schedule was told to the timer
    panics         \* the messages of the panics so far

sysVars == <<next_ids, refs, channel, joined, timeouts, received, requests,
             timer_stops, watcher_mail, done_fns, registered,
             system_stopped, spawning, active, timer_schedules, panics>>

vars == <<mbVars, detVars, rtVars, lgVars, sysVars>>

\* What the actions of one part of the model leave alone.
notMbVars == <<detVars, rtVars, lgVars, sysVars>>
notDetVars == <<mbVars, rtVars, lgVars, sysVars>>
notRtVars == <<mbVars, detVars, lgVars, sysVars>>
notLgVars == <<mbVars, detVars, rtVars, sysVars>>
notSysVars == <<mbVars, detVars, rtVars, lgVars>>

Range(s) == {s[i] : i \in 1..Len(s)}

(***************************************************************************)
(* The channel operations the mailbox delegates to.                        *)
(***************************************************************************)
\* Sender::send on an unbounded channel: Err when the receiver was dropped.
ChannelSend(ch, alive, m) ==
    IF alive THEN [ok |-> TRUE, ch |-> Append(ch, m)]
             ELSE [ok |-> FALSE, ch |-> ch]

\* Receiver::try_recv: the oldest message, or Err when the channel is empty.
ChannelTryRecv(ch) ==
    IF ch = <<>> THEN [ok |-> FALSE, ch |-> ch]
                 ELSE [ok |-> TRUE, val |-> Head(ch), ch |-> Tail(ch)]

\* retrieve taking the newest message of the channel instead of the oldest.
retrieveNewest(ch) ==
    IF ch = <<>> THEN [some |-> FALSE, ch |-> ch]
    ELSE [some |-> TRUE, val |-> ch[Len(ch)], ch |-> SubSeq(ch, 1, Len(ch) - 1)]

\* retrieve returning the oldest message without taking it off the channel.
retrievePeek(ch) ==
    IF ch = <<>> THEN [some |-> FALSE, ch |-> ch]
    ELSE [some |-> TRUE, val |-> Head(ch), ch |-> ch]

\* MailboxLogic::retrieve: self.receiver.try_recv().ok()
retrieve(ch) ==
    LET r == ChannelTryRecv(ch)
    IN  IF r.ok THEN [some |-> TRUE, val |-> r.val, ch |-> r.ch]
                ELSE [some |-> FALSE, ch |-> r.ch]

\* append that unwraps the result of send instead of ignoring it.
appendUnwrap(ch, alive, m) ==
    LET r == ChannelSend(ch, alive, m)
    IN  [ch |-> r.ch, panicked |-> ~r.ok]

\* MailboxAppenderLogic::append: the Err of send is ignored.
append(ch, alive, m) ==
    LET r == ChannelSend(ch, alive, m)
    IN  [ch |-> r.ch, panicked |-> FALSE]

(***************************************************************************)
(* Mailbox actions.                                                        *)
(***************************************************************************)
MailboxVarsInit ==
    /\ chan = <<>>
    /\ mbAlive = TRUE
    /\ appenders = {1}
    /\ tcount = [t \in Threads |-> 0]
    /\ tstat = [t \in Threads |-> "run"]
    /\ appended = {}
    /\ retrieved = <<>>
    /\ lastRetrieve = [called |-> FALSE, some |-> FALSE, pending |-> 0]
    /\ discarded = 0

\* The detached boundary right after Detached::attach: the actor is spawned,
\* Attached is in its mailbox and the upstream has been attached.
DetachedVarsInit ==
    /\ buffer = <<>>
    /\ producer = FALSE
    /\ consumer = FALSE
    /\ demand = 0
    /\ cancelled = FALSE
    /\ completed = FALSE
    /\ failed = FALSE
    /\ inbox = <<[t |-> "Attached"]>>
    /\ dpc = "idle"
    /\ reqTask = FALSE
    /\ prodTask = <<>>
    /\ up = "attached"
    /\ down = "unattached"
    /\ produced = <<>>
    /\ upRequests = 0
    /\ downEvents = <<>>
    /\ downDemand = 0

\* The runtime after ActorSystem::start: no user actor yet, nothing
\* scheduled, every worker parked.
NoCell == [state |-> "None", shard |-> 0, signals |-> <<>>, mailbox |-> <<>>,
           watchers |-> {}]

IdleWorker == [pc |-> "idle", shard |-> 0, cur |-> 0, left |-> 0]

NoObs == [started |-> FALSE, handled |-> 0, queuedAtStart |-> 0,
          emitted |-> FALSE, dropped |-> 0, lateTells |-> 0]

RuntimeVarsInit ==
    /\ next_id = FirstUserId
    /\ cell = [c \in ActorIds |-> NoCell]
    /\ scheduled = [s \in ShardIds |-> FALSE]
    /\ runQueue = [s \in ShardIds |-> 0]
    /\ worker = [w \in Workers |-> IdleWorker]
    /\ sending = [t \in Senders |-> 0]
    /\ sent = [t \in Senders |-> 0]
    /\ obs = [c \in ActorIds |-> NoObs]
    /\ notified = [p \in ActorIds \X ActorIds |-> 0]
    /\ regs = [p \in ActorIds \X ActorIds |-> "no"]

\* No stream of Logic stages has been built; p tells what is observed.
LogicVarsNone(p) ==
    /\ part = p
    /\ iterator = <<>>
    /\ filter = {}
    /\ while_fn = {}
    /\ source = <<>>
    /\ stage = [s \in Stages |-> "none"]
    /\ events = <<>>
    /\ sink = "none"
    /\ seen = [s \in Stages \cup {SinkStage} |-> <<>>]
    /\ pushed = [s \in Stages |-> <<>>]
    /\ pulls = [s \in Stages \cup {SinkStage} |-> 0]
    /\ pulled = [s \in Stages |-> 0]
    /\ last = [s |-> 0, e |-> "None", a |-> "None"]

\* The two contexts ActorSystem::start creates.
Contexts == {"system_context", "context"}

\* The threads that call spawn_actor.
Spawners == 1..NumSpawners

\* No actor system has been started.
SystemVarsNone ==
    /\ next_ids = [c \in Contexts |-> 0]
    /\ refs = {}
    /\ channel = <<>>
    /\ joined = "none"
    /\ timeouts = 0
    /\ received = <<>>
    /\ requests = 0
    /\ timer_stops = 0
    /\ watcher_mail = <<>>
    /\ done_fns = <<>>
    /\ registered = {}
    /\ system_stopped = FALSE
    /\ spawning = [t \in Spawners |-> <<>>]
    /\ active = "none"
    /\ timer_schedules = 0
    /\ panics = <<>>

MailboxInit ==
    /\ MailboxVarsInit /\ DetachedVarsInit /\ RuntimeVarsInit
    /\ LogicVarsNone("none") /\ SystemVarsNone

\* appender.clone(): a further handle on the same channel.
CloneAppender ==
    /\ Cardinality(appenders) < MaxAppenders
    /\ appenders' = appenders \cup {Cardinality(appenders) + 1}
    /\ UNCHANGED <<chan, mbAlive, tcount, tstat, appended, retrieved,
                   lastRetrieve, discarded>>
    /\ UNCHANGED notMbVars

\* Thread t appends its next message through appender a.
ThreadAppend(t, a) ==
    /\ tstat[t] = "run"
    /\ tcount[t] < MaxAppends
    /\ a \in appenders
    /\ LET m == [th |-> t, ap |-> a, n |-> tcount[t] + 1]
           r == append(chan, mbAlive, m)
       IN  /\ chan' = r.ch
           /\ tstat' = [tstat EXCEPT ![t] = IF r.panicked THEN "panicked" ELSE "run"]
           /\ appended' = IF mbAlive THEN appended \cup {m} ELSE appended
           /\ discarded' = IF mbAlive THEN discarded ELSE discarded + 1
    /\ tcount' = [tcount EXCEPT ![t] = @ + 1]
    /\ UNCHANGED <<mbAlive, appenders, retrieved, lastRetrieve>>
    /\ UNCHANGED notMbVars

\* The owner calls mailbox.retrieve().
Retrieve ==
    /\ mbAlive
    /\ LET r == retrieve(chan)
       IN  /\ chan' = r.ch
           /\ retrieved' = IF r.some THEN Append(retrieved, r.val) ELSE retrieved
           /\ lastRetrieve' = [called |-> TRUE, some |-> r.some,
                               pending |-> Cardinality(appended \ Range(retrieved))]
    /\ UNCHANGED <<mbAlive, appenders, tcount, tstat, appended, discarded>>
    /\ UNCHANGED notMbVars

\* The mailbox is dropped with its cell: the receive end and the messages
\* still in the channel are gone, appenders may outlive it.
DropMailbox ==
    /\ mbAlive
    /\ mbAlive' = FALSE
    /\ chan' = <<>>
    /\ UNCHANGED <<appenders, tcount, tstat, appended, retrieved, lastRetrieve,
                   discarded>>
    /\ UNCHANGED notMbVars

MailboxNext ==
    \/ CloneAppender
    \/ \E t \in Threads, a \in AppenderIds : ThreadAppend(t, a)
    \/ Retrieve
    \/ DropMailbox

MailboxSpec == MailboxInit /\ [][MailboxNext]_vars

(***************************************************************************)
(* The detached actor: what it calls on its neighbours.                    *)
(***************************************************************************)
Msg(type) == [t |-> type]

\* A call on the downstream consumer, as the consumer sees it.
ConsumerCall(ev) ==
    [ev |-> ev, el |-> 0, buf |-> Len(buffer),
     afterCancel |-> (down = "cancelled")]

\* GenConsumer::completed / failed: the terminal call reaches the downstream,
\* which gets no handle back.
ConsumerTerminal(ev) ==
    /\ downEvents' = Append(downEvents, ConsumerCall(ev))
    /\ down' = IF down = "cancelled" THEN down ELSE ev

(***************************************************************************)
(* DetachedActor::receive, one action per message variant.                 *)
(***************************************************************************)
Receiving(type) ==
    /\ dpc = "idle"
    /\ inbox # <<>>
    /\ Head(inbox).t = type

\* A Started handler that requests BUFFER_SIZE elements at once.
ReceiveStartedFillsBuffer ==
    /\ Receiving("Started")
    /\ inbox' = Tail(inbox)
    /\ IF cancelled
       THEN /\ up' = "cancelled"
            /\ UNCHANGED upRequests
       ELSE /\ up' = "requested"
            /\ upRequests' = upRequests + BUFFER_SIZE
    /\ UNCHANGED <<buffer, producer, consumer, demand, cancelled, completed,
                   failed, dpc, reqTask, prodTask, down, produced, downEvents>>
    /\ UNCHANGED downDemand
    /\ UNCHANGED notDetVars

\* Started(producer): request the first element, or cancel.
ReceiveStarted ==
    /\ Receiving("Started")
    /\ inbox' = Tail(inbox)
    /\ IF cancelled
       THEN /\ up' = "cancelled"
            /\ UNCHANGED upRequests
       ELSE /\ up' = "requested"
            /\ upRequests' = upRequests + 1
    /\ UNCHANGED <<buffer, producer, consumer, demand, cancelled, completed,
                   failed, dpc, reqTask, prodTask, down, produced, downEvents>>
    /\ UNCHANGED downDemand
    /\ UNCHANGED notDetVars

\* The room test that stops asking one element before the buffer is full.
HasRoomOneLess(buf) == Len(buf) < BUFFER_SIZE - 1

\* The room test letting a full buffer ask for one more element.
HasRoomInclusive(buf) == Len(buf) <= BUFFER_SIZE

\* The test of the Produced and Requested handlers that decides whether to
\* ask the upstream for more.
HasRoom(buf) == Len(buf) < BUFFER_SIZE

\* A Produced handler that puts the element at the front of the buffer.
ReceiveProducedPushFront ==
    /\ Receiving("Produced")
    /\ inbox' = Tail(inbox)
    /\ buffer' = <<Head(inbox).el>> \o buffer
    /\ IF cancelled
       THEN /\ up' = "cancelled"
            /\ UNCHANGED <<reqTask, producer>>
       ELSE IF HasRoom(buffer')
       THEN /\ reqTask' = TRUE
            /\ UNCHANGED <<up, producer>>
       ELSE /\ producer' = TRUE
            /\ UNCHANGED <<up, reqTask>>
    /\ dpc' = IF consumer THEN "tellSelf" ELSE "idle"
    /\ UNCHANGED <<consumer, demand, cancelled, completed, failed, prodTask,
                   down, produced, upRequests, downEvents>>
    /\ UNCHANGED downDemand
    /\ UNCHANGED notDetVars

\* Produced(producer, el), up to the point where the handler looks at the
\* parked consumer: buffer the element, then cancel, request or park.
ReceiveProduced ==
    /\ Receiving("Produced")
    /\ inbox' = Tail(inbox)
    /\ buffer' = Append(buffer, Head(inbox).el)
    /\ IF cancelled
       THEN /\ up' = "cancelled"
            /\ UNCHANGED <<reqTask, producer>>
       ELSE IF HasRoom(buffer')
       THEN /\ reqTask' = TRUE
            /\ UNCHANGED <<up, producer>>
       ELSE /\ producer' = TRUE
            /\ UNCHANGED <<up, reqTask>>
    /\ dpc' = IF consumer THEN "tellSelf" ELSE "idle"
    /\ UNCHANGED <<consumer, demand, cancelled, completed, failed, prodTask,
                   down, produced, upRequests, downEvents>>
    /\ UNCHANGED downDemand
    /\ UNCHANGED notDetVars

\* End of the Produced handler: the parked consumer is sent back to the actor
\* itself as Requested(consumer, 0).
ProducedTellSelf ==
    /\ dpc = "tellSelf"
    /\ dpc' = "idle"
    /\ consumer' = FALSE
    /\ inbox' = Append(inbox, [t |-> "Requested", n |-> 0])
    /\ UNCHANGED <<buffer, producer, demand, cancelled, completed, failed,
                   reqTask, prodTask, up, down, produced, upRequests, downEvents>>
    /\ UNCHANGED downDemand
    /\ UNCHANGED notDetVars

\* A Completed handler that completes the parked consumer and keeps it.
ReceiveCompletedKeepsConsumer ==
    /\ Receiving("Completed")
    /\ inbox' = Tail(inbox)
    /\ completed' = TRUE
    /\ IF consumer
       THEN /\ consumer' = TRUE
            /\ ConsumerTerminal("completed")
       ELSE UNCHANGED <<consumer, down, downEvents>>
    /\ UNCHANGED <<buffer, producer, demand, cancelled, failed, dpc, reqTask,
                   prodTask, up, produced, upRequests>>
    /\ UNCHANGED downDemand
    /\ UNCHANGED notDetVars

\* Completed: remember it and complete a parked consumer.
ReceiveCompleted ==
    /\ Receiving("Completed")
    /\ inbox' = Tail(inbox)
    /\ completed' = TRUE
    /\ IF consumer
       THEN /\ consumer' = FALSE
            /\ ConsumerTerminal("completed")
       ELSE UNCHANGED <<consumer, down, downEvents>>
    /\ UNCHANGED <<buffer, producer, demand, cancelled, failed, dpc, reqTask,
                   prodTask, up, produced, upRequests>>
    /\ UNCHANGED downDemand
    /\ UNCHANGED notDetVars

\* A Failed handler that loses the error when no consumer is parked.
ReceiveFailedLosesError ==
    /\ Receiving("Failed")
    /\ inbox' = Tail(inbox)
    /\ IF consumer
       THEN /\ consumer' = FALSE
            /\ ConsumerTerminal("failed")
       ELSE UNCHANGED <<consumer, down, downEvents>>
    /\ UNCHANGED <<buffer, producer, demand, cancelled, completed, failed, dpc,
                   reqTask, prodTask, up, produced, upRequests>>
    /\ UNCHANGED downDemand
    /\ UNCHANGED notDetVars

\* Failed(error): fail a parked consumer, else keep the error.
ReceiveFailed ==
    /\ Receiving("Failed")
    /\ inbox' = Tail(inbox)
    /\ IF consumer
       THEN /\ consumer' = FALSE
            /\ ConsumerTerminal("failed")
            /\ UNCHANGED failed
       ELSE /\ failed' = TRUE
            /\ UNCHANGED <<consumer, down, downEvents>>
    /\ UNCHANGED <<buffer, producer, demand, cancelled, completed, dpc, reqTask,
                   prodTask, up, produced, upRequests>>
    /\ UNCHANGED downDemand
    /\ UNCHANGED notDetVars

\* A Requested handler that delivers an element without taking it off the
\* demand.
ReceiveRequestedKeepsDemand ==
    /\ Receiving("Requested")
    /\ inbox' = Tail(inbox)
    /\ IF completed
       THEN /\ ConsumerTerminal("completed")
            /\ UNCHANGED <<buffer, producer, consumer, demand, failed, reqTask,
                           prodTask>>
       ELSE IF failed
       THEN /\ failed' = FALSE
            /\ ConsumerTerminal("failed")
            /\ UNCHANGED <<buffer, producer, consumer, demand, reqTask, prodTask>>
       ELSE LET d == demand + Head(inbox).n
            IN  IF d > 0 /\ buffer # <<>>
                THEN /\ demand' = d
                     /\ buffer' = Tail(buffer)
                     /\ IF HasRoom(buffer') /\ producer
                        THEN producer' = FALSE /\ reqTask' = TRUE
                        ELSE UNCHANGED <<producer, reqTask>>
                     /\ prodTask' = <<Head(buffer)>>
                     /\ UNCHANGED <<consumer, failed, down, downEvents>>
                ELSE /\ demand' = d
                     /\ consumer' = TRUE
                     /\ UNCHANGED <<buffer, producer, failed, reqTask, prodTask,
                                    down, downEvents>>
    /\ UNCHANGED <<cancelled, completed, dpc, up, produced, upRequests>>
    /\ UNCHANGED downDemand
    /\ UNCHANGED notDetVars

\* Requested(consumer, n): terminal when completed or failed, else add the
\* demand and deliver one buffered element or park the consumer.
ReceiveRequested ==
    /\ Receiving("Requested")
    /\ inbox' = Tail(inbox)
    /\ IF completed
       THEN /\ ConsumerTerminal("completed")
            /\ UNCHANGED <<buffer, producer, consumer, demand, failed, reqTask,
                           prodTask>>
       ELSE IF failed
       THEN /\ failed' = FALSE
            /\ ConsumerTerminal("failed")
            /\ UNCHANGED <<buffer, producer, consumer, demand, reqTask, prodTask>>
       ELSE LET d == demand + Head(inbox).n
            IN  IF d > 0 /\ buffer # <<>>
                THEN /\ demand' = d - 1
                     /\ buffer' = Tail(buffer)
                     /\ IF HasRoom(buffer') /\ producer
                        THEN producer' = FALSE /\ reqTask' = TRUE
                        ELSE UNCHANGED <<producer, reqTask>>
                     /\ prodTask' = <<Head(buffer)>>
                     /\ UNCHANGED <<consumer, failed, down, downEvents>>
                ELSE /\ demand' = d
                     /\ consumer' = TRUE
                     /\ UNCHANGED <<buffer, producer, failed, reqTask, prodTask,
                                    down, downEvents>>
    /\ UNCHANGED <<cancelled, completed, dpc, up, produced, upRequests>>
    /\ UNCHANGED downDemand
    /\ UNCHANGED notDetVars

\* A Cancelled handler that forgets the cancel when no producer is parked.
ReceiveCancelledForgets ==
    /\ Receiving("Cancelled")
    /\ inbox' = Tail(inbox)
    /\ consumer' = TRUE
    /\ IF producer
       THEN /\ producer' = FALSE
            /\ up' = "cancelled"
       ELSE UNCHANGED <<producer, up>>
    /\ UNCHANGED <<buffer, demand, cancelled, completed, failed, dpc, reqTask,
                   prodTask, down, produced, upRequests, downEvents>>
    /\ UNCHANGED downDemand
    /\ UNCHANGED notDetVars

\* Cancelled(consumer): park the consumer; cancel a parked producer, else
\* remember the cancel for the producer's return.
ReceiveCancelled ==
    /\ Receiving("Cancelled")
    /\ inbox' = Tail(inbox)
    /\ consumer' = TRUE
    /\ IF producer
       THEN /\ producer' = FALSE
            /\ up' = "cancelled"
            /\ UNCHANGED cancelled
       ELSE /\ cancelled' = TRUE
            /\ UNCHANGED <<producer, up>>
    /\ UNCHANGED <<buffer, demand, completed, failed, dpc, reqTask, prodTask,
                   down, produced, upRequests, downEvents>>
    /\ UNCHANGED downDemand
    /\ UNCHANGED notDetVars

\* Attached(consumer): consumer.started() hands the downstream its producer.
ReceiveAttached ==
    /\ Receiving("Attached")
    /\ inbox' = Tail(inbox)
    /\ downEvents' = Append(downEvents, ConsumerCall("started"))
    /\ down' = "holding"
    /\ UNCHANGED <<buffer, producer, consumer, demand, cancelled, completed,
                   failed, dpc, reqTask, prodTask, up, produced, upRequests>>
    /\ UNCHANGED downDemand
    /\ UNCHANGED notDetVars

(***************************************************************************)
(* Tasks the actor put on the dispatcher.                                  *)
(***************************************************************************)
\* producer.request(1) reaches the upstream (GenProducer::request).
RunRequestTask ==
    /\ reqTask
    /\ reqTask' = FALSE
    /\ up' = "requested"
    /\ upRequests' = upRequests + 1
    /\ UNCHANGED <<buffer, producer, consumer, demand, cancelled, completed,
                   failed, inbox, dpc, prodTask, down, produced, downEvents>>
    /\ UNCHANGED downDemand
    /\ UNCHANGED notDetVars

\* consumer.produced(elem) reaches the downstream (GenConsumer::produced),
\* which holds the producer handle again.
RunProducedTask ==
    /\ prodTask # <<>>
    /\ prodTask' = <<>>
    /\ downEvents' = Append(downEvents,
                            [ConsumerCall("produced") EXCEPT !.el = prodTask[1]])
    /\ down' = IF down = "cancelled" THEN down ELSE "holding"
    /\ UNCHANGED <<buffer, producer, consumer, demand, cancelled, completed,
                   failed, inbox, dpc, reqTask, up, produced, upRequests>>
    /\ UNCHANGED downDemand
    /\ UNCHANGED notDetVars

(***************************************************************************)
(* The neighbours: Consumer and Producer for Detached, called by upstream  *)
(* and downstream stages that follow the protocol.                         *)
(***************************************************************************)
\* Consumer::started: the upstream announces itself once.
UpstreamStarted ==
    /\ up = "attached"
    /\ up' = "idle"
    /\ inbox' = Append(inbox, Msg("Started"))
    /\ UNCHANGED <<buffer, producer, consumer, demand, cancelled, completed,
                   failed, dpc, reqTask, prodTask, down, produced, upRequests,
                   downEvents>>
    /\ UNCHANGED downDemand
    /\ UNCHANGED notDetVars

\* Consumer::produced: the upstream answers a request with its next element.
UpstreamProduced ==
    /\ up = "requested"
    /\ Len(produced) < MaxSrc
    /\ up' = "idle"
    /\ LET el == Len(produced) + 1
       IN  /\ inbox' = Append(inbox, [t |-> "Produced", el |-> el])
           /\ produced' = Append(produced, el)
    /\ UNCHANGED <<buffer, producer, consumer, demand, cancelled, completed,
                   failed, dpc, reqTask, prodTask, down, upRequests, downEvents>>
    /\ UNCHANGED downDemand
    /\ UNCHANGED notDetVars

\* Consumer::completed: the upstream answers a request with completion.
UpstreamCompleted ==
    /\ up = "requested"
    /\ up' = "done"
    /\ inbox' = Append(inbox, Msg("Completed"))
    /\ UNCHANGED <<buffer, producer, consumer, demand, cancelled, completed,
                   failed, dpc, reqTask, prodTask, down, produced, upRequests,
                   downEvents>>
    /\ UNCHANGED downDemand
    /\ UNCHANGED notDetVars

\* Consumer::failed: the upstream answers a request with an error.
UpstreamFailed ==
    /\ up = "requested"
    /\ up' = "done"
    /\ inbox' = Append(inbox, Msg("Failed"))
    /\ UNCHANGED <<buffer, producer, consumer, demand, cancelled, completed,
                   failed, dpc, reqTask, prodTask, down, produced, upRequests,
                   downEvents>>
    /\ UNCHANGED downDemand
    /\ UNCHANGED notDetVars

\* Producer::request: the downstream hands its handle back with a demand.
DownstreamRequest(n) ==
    /\ down = "holding"
    /\ down' = "waiting"
    /\ inbox' = Append(inbox, [t |-> "Requested", n |-> n])
    /\ UNCHANGED <<buffer, producer, consumer, demand, cancelled, completed,
                   failed, dpc, reqTask, prodTask, up, produced, upRequests,
                   downEvents>>
    /\ downDemand' = downDemand + n
    /\ UNCHANGED notDetVars

\* Producer::cancel: the downstream gives up.
DownstreamCancel ==
    /\ down = "holding"
    /\ down' = "cancelled"
    /\ inbox' = Append(inbox, Msg("Cancelled"))
    /\ UNCHANGED <<buffer, producer, consumer, demand, cancelled, completed,
                   failed, dpc, reqTask, prodTask, up, produced, upRequests,
                   downEvents>>
    /\ UNCHANGED downDemand
    /\ UNCHANGED notDetVars

DetachedInit ==
    /\ MailboxVarsInit /\ DetachedVarsInit /\ RuntimeVarsInit
    /\ LogicVarsNone("detached") /\ SystemVarsNone

DetachedNext ==
    \/ ReceiveStarted
    \/ ReceiveProduced
    \/ ProducedTellSelf
    \/ ReceiveCompleted
    \/ ReceiveFailed
    \/ ReceiveRequested
    \/ ReceiveCancelled
    \/ ReceiveAttached
    \/ RunRequestTask
    \/ RunProducedTask
    \/ UpstreamStarted
    \/ UpstreamProduced
    \/ UpstreamCompleted
    \/ UpstreamFailed
    \/ \E n \in 1..MaxDemand : DownstreamRequest(n)
    \/ DownstreamCancel

DetachedSpec == DetachedInit /\ [][DetachedNext]_vars

(***************************************************************************)
(* The Logic stages: receive maps an event to an action.                   *)
(***************************************************************************)
Event(e, el) == [e |-> e, el |-> el]
Action(a, el) == [a |-> a, el |-> el]

\* The events a stage can be handed; Pushed carries an element.
LogicEvents ==
    {Event(e, 0) : e \in {"Pulled", "Cancelled", "Stopped", "Started",
                          "Forwarded"}}
    \cup {Event("Pushed", el) : el \in Elems}

\* Filter::receive that pushes what the predicate rejects as well.
FilterReceiveAll(msg, f) ==
    CASE msg.e = "Pushed" -> Action("Push", msg.el)
      [] msg.e = "Pulled" -> Action("Pull", 0)
      [] msg.e = "Cancelled" -> Action("Cancel", 0)
      [] msg.e = "Stopped" -> Action("Stop", 0)
      [] OTHER -> Action("None", 0)

\* Filter::receive with the predicate f.
FilterReceive(msg, f) ==
    CASE msg.e = "Pushed" ->
            IF msg.el \in f THEN Action("Push", msg.el) ELSE Action("Pull", 0)
      [] msg.e = "Pulled" -> Action("Pull", 0)
      [] msg.e = "Cancelled" -> Action("Cancel", 0)
      [] msg.e = "Stopped" -> Action("Stop", 0)
      [] msg.e = "Started" -> Action("None", 0)
      [] msg.e = "Forwarded" -> Action("None", 0)

\* TakeWhile::receive that skips an element failing the predicate and asks
\* for the next one.
TakeWhileReceiveSkip(msg, f) ==
    CASE msg.e = "Pulled" -> Action("Pull", 0)
      [] msg.e = "Pushed" ->
            IF msg.el \in f THEN Action("Push", msg.el) ELSE Action("Pull", 0)
      [] msg.e \in {"Stopped", "Cancelled"} -> Action("Complete", 0)
      [] OTHER -> Action("None", 0)

\* TakeWhile::receive that pushes an element whatever the predicate says.
TakeWhileReceiveAll(msg, f) ==
    CASE msg.e = "Pulled" -> Action("Pull", 0)
      [] msg.e = "Pushed" -> Action("Push", msg.el)
      [] msg.e \in {"Stopped", "Cancelled"} -> Action("Complete", 0)
      [] OTHER -> Action("None", 0)

\* TakeWhile::receive with the predicate f.
TakeWhileReceive(msg, f) ==
    CASE msg.e = "Pulled" -> Action("Pull", 0)
      [] msg.e = "Pushed" ->
            IF msg.el \in f THEN Action("Push", msg.el)
                            ELSE Action("Complete", 0)
      [] msg.e \in {"Stopped", "Cancelled"} -> Action("Complete", 0)
      [] msg.e \in {"Started", "Forwarded"} -> Action("None", 0)

\* Iterator::receive that pushes its first element as soon as it is started.
IteratorReceiveEager(msg, it) ==
    CASE msg.e \in {"Pulled", "Started"} ->
            IF it # <<>>
            THEN [act |-> Action("Push", Head(it)), it |-> Tail(it)]
            ELSE [act |-> Action("Complete", 0), it |-> it]
      [] msg.e = "Cancelled" -> [act |-> Action("Complete", 0), it |-> it]
      [] OTHER -> [act |-> Action("None", 0), it |-> it]

\* Iterator::receive that drops the element it took and tells the one after.
IteratorReceiveSkip(msg, it) ==
    CASE msg.e = "Pulled" ->
            IF Len(it) > 1
            THEN [act |-> Action("Push", it[2]), it |-> Tail(Tail(it))]
            ELSE [act |-> Action("Complete", 0), it |-> <<>>]
      [] msg.e = "Cancelled" -> [act |-> Action("Complete", 0), it |-> it]
      [] OTHER -> [act |-> Action("None", 0), it |-> it]

\* Iterator::receive on the iterator it: the action told to the context (None
\* when nothing is told) and the iterator afterwards.
IteratorReceive(msg, it) ==
    CASE msg.e = "Pulled" ->
            IF it # <<>>
            THEN [act |-> Action("Push", Head(it)), it |-> Tail(it)]
            ELSE [act |-> Action("Complete", 0), it |-> it]
      [] msg.e = "Cancelled" -> [act |-> Action("Complete", 0), it |-> it]
      [] msg.e \in {"Pushed", "Stopped", "Started", "Forwarded"} ->
            [act |-> Action("None", 0), it |-> it]

(***************************************************************************)
(* The stream of Logic stages: events are delivered one after the other,   *)
(* and the action a stage answers with becomes events of its neighbours.   *)
(***************************************************************************)
\* The sequences over S of length n and of length at most n.
SeqsOfLen(S, n) == [1..n -> S]
SeqsUpTo(S, n) == UNION {SeqsOfLen(S, k) : k \in 0..n}

\* A stream Source.iterator(source) -> filter -> take_while -> sink was
\* built and every stage is about to be started.
LogicVarsInit ==
    /\ part = "logic"
    /\ source \in SeqsUpTo(Elems, MaxIter)
    /\ iterator = source
    /\ filter \in SUBSET Elems
    /\ while_fn \in SUBSET Elems
    /\ stage = [s \in Stages |-> "running"]
    /\ events = [s \in Stages |-> [to |-> s, ev |-> Event("Started", 0)]]
    /\ sink = "idle"
    /\ seen = [s \in Stages \cup {SinkStage} |-> <<>>]
    /\ pushed = [s \in Stages |-> <<>>]
    /\ pulls = [s \in Stages \cup {SinkStage} |-> 0]
    /\ pulled = [s \in Stages |-> 0]
    /\ last = [s |-> 0, e |-> "None", a |-> "None"]

\* The action stage s answers the event msg with.
React(s, msg) ==
    IF s = IteratorStage THEN IteratorReceive(msg, iterator).act
    ELSE IF s = FilterStage THEN FilterReceive(msg, filter)
    ELSE TakeWhileReceive(msg, while_fn)

\* The events the action act of stage s becomes: Pull and Cancel go to the
\* stage before, Push to the stage after; a stage that completes stops the
\* stage after it and cancels the stage before it.
Deliveries(s, act) ==
    LET upstream(e) == IF s > IteratorStage
                       THEN <<[to |-> s - 1, ev |-> Event(e, 0)]>> ELSE <<>>
    IN  CASE act.a = "Push" -> <<[to |-> s + 1, ev |-> Event("Pushed", act.el)]>>
          [] act.a = "Pull" -> upstream("Pulled")
          [] act.a = "Cancel" -> upstream("Cancelled")
          [] act.a \in {"Complete", "Stop"} ->
                <<[to |-> s + 1, ev |-> Event("Stopped", 0)]>>
                \o upstream("Cancelled")
          [] OTHER -> <<>>

\* A running stage receives the next event and its action is carried out.
StageReceive ==
    /\ events # <<>>
    /\ Head(events).to \in Stages
    /\ stage[Head(events).to] = "running"
    /\ LET s == Head(events).to
           msg == Head(events).ev
           act == React(s, msg)
       IN  /\ events' = Tail(events) \o Deliveries(s, act)
           /\ iterator' = IF s = IteratorStage
                           THEN IteratorReceive(msg, iterator).it ELSE iterator
           /\ stage' = IF act.a \in {"Complete", "Stop"}
                        THEN [stage EXCEPT ![s] = "done"] ELSE stage
           /\ seen' = IF msg.e = "Pushed"
                       THEN [seen EXCEPT ![s] = Append(@, msg.el)] ELSE seen
           /\ pulled' = IF msg.e = "Pulled"
                         THEN [pulled EXCEPT ![s] = @ + 1] ELSE pulled
           /\ pushed' = IF act.a = "Push"
                         THEN [pushed EXCEPT ![s] = Append(@, act.el)] ELSE pushed
           /\ pulls' = IF act.a = "Pull"
                        THEN [pulls EXCEPT ![s] = @ + 1] ELSE pulls
           /\ last' = [s |-> s, e |-> msg.e, a |-> act.a]
    /\ UNCHANGED <<part, filter, while_fn, source, sink>>
    /\ UNCHANGED notLgVars

\* An event for a stage that has terminated is not delivered.
DropEvent ==
    /\ events # <<>>
    /\ Head(events).to \in Stages
    /\ stage[Head(events).to] = "done"
    /\ events' = Tail(events)
    /\ UNCHANGED <<part, iterator, filter, while_fn, source, stage, sink, seen,
                   pushed, pulls, pulled, last>>
    /\ UNCHANGED notLgVars

\* The sink receives an element or the end of the stream.
SinkReceive ==
    /\ events # <<>>
    /\ Head(events).to = SinkStage
    /\ events' = Tail(events)
    /\ LET msg == Head(events).ev IN
       /\ seen' = IF msg.e = "Pushed"
                   THEN [seen EXCEPT ![SinkStage] = Append(@, msg.el)] ELSE seen
       /\ sink' = IF sink = "cancelled" THEN sink
                   ELSE IF msg.e = "Stopped" THEN "completed"
                   ELSE "idle"
    /\ UNCHANGED <<part, iterator, filter, while_fn, source, stage, pushed,
                   pulls, pulled, last>>
    /\ UNCHANGED notLgVars

\* The sink asks for the next element.
SinkPull ==
    /\ sink = "idle"
    /\ events = <<>>
    /\ sink' = "waiting"
    /\ pulls' = [pulls EXCEPT ![SinkStage] = @ + 1]
    /\ events' = <<[to |-> TakeWhileStage, ev |-> Event("Pulled", 0)]>>
    /\ UNCHANGED <<part, iterator, filter, while_fn, source, stage, seen,
                   pushed, pulled, last>>
    /\ UNCHANGED notLgVars

\* The sink wants no more elements.
SinkCancel ==
    /\ sink = "idle"
    /\ events = <<>>
    /\ sink' = "cancelled"
    /\ events' = <<[to |-> TakeWhileStage, ev |-> Event("Cancelled", 0)]>>
    /\ UNCHANGED <<part, iterator, filter, while_fn, source, stage, seen,
                   pushed, pulls, pulled, last>>
    /\ UNCHANGED notLgVars

LogicInit ==
    /\ MailboxVarsInit /\ DetachedVarsInit /\ RuntimeVarsInit
    /\ LogicVarsInit /\ SystemVarsNone

LogicNext ==
    \/ StageReceive
    \/ DropEvent
    \/ SinkReceive
    \/ SinkPull
    \/ SinkCancel

LogicSpec == LogicInit /\ [][LogicNext]_vars

\* The stream goes on delivering the events it has pending.
FairLogicSpec ==
    LogicSpec /\ WF_vars(StageReceive \/ DropEvent \/ SinkReceive)

(***************************************************************************)
(* A stream is made of Logic stages or is a detached boundary between its  *)
(* two neighbours.                                                         *)
(***************************************************************************)
StreamInit == DetachedInit \/ LogicInit

StreamNext ==
    \/ part = "detached" /\ DetachedNext
    \/ part = "logic" /\ LogicNext

StreamSpec == StreamInit /\ [][StreamNext]_vars

\* The detached actor handles its mailbox, the dispatcher runs the tasks it
\* was given, an upstream that was attached or asked answers, and the
\* stream of Logic stages delivers its pending events.
StreamFairness ==
    /\ WF_vars(part = "detached" /\
                 (ReceiveStarted \/ ReceiveProduced \/ ProducedTellSelf
                  \/ ReceiveCompleted \/ ReceiveFailed \/ ReceiveRequested
                  \/ ReceiveCancelled \/ ReceiveAttached))
    /\ WF_vars(part = "detached" /\ RunRequestTask)
    /\ WF_vars(part = "detached" /\ RunProducedTask)
    /\ WF_vars(part = "detached" /\
                 (UpstreamStarted \/ UpstreamProduced \/ UpstreamCompleted
                  \/ UpstreamFailed))
    /\ WF_vars(part = "logic" /\ (StageReceive \/ DropEvent \/ SinkReceive))

FairStreamSpec == StreamSpec /\ StreamFairness

(***************************************************************************)
(* The actor runtime: shards, cells and ActorRef::tell.                    *)
(***************************************************************************)
Live == {"Uninitialized", "Running", "Stopping"}

Min(S) == CHOOSE x \in S : \A y \in S : x <= y

UserMsg(t, n) == [k |-> "user", from |-> t, n |-> n]
TermMsg(target) == [k |-> "term", from |-> target, n |-> 0]

\* spawn_actor, no custom dispatcher: the shard of an actor id.
ShardOf(id) == id % NumShards

\* A cell the shard has to visit: signals or messages are queued, or its
\* stop sequence is still to run.
HasWork(c) ==
    /\ c \in ActorIds
    /\ cell[c].state \in Live
    /\ \/ cell[c].signals # <<>>
       \/ cell[c].mailbox # <<>>
       \/ cell[c].state = "Stopping"

ShardHasWork(s) == \E c \in ActorIds : cell[c].shard = s /\ HasWork(c)

\* The next live cell of shard s after cell id c, 0 when there is none.
NextCell(s, c) ==
    LET cands == {d \in ActorIds :
                    d > c /\ cell[d].state \in Live /\ cell[d].shard = s}
    IN  IF cands = {} THEN 0 ELSE Min(cands)

\* schedule() submitting a run task whatever the scheduled flag says.
ScheduleUnguarded(S) ==
    /\ scheduled' = [s \in ShardIds |-> scheduled[s] \/ s \in S]
    /\ runQueue' = [s \in ShardIds |->
                       runQueue[s] + (IF s \in S THEN 1 ELSE 0)]

\* schedule() on every shard of S: a shard whose scheduled flag was false
\* gets the flag set and one run task submitted, the others nothing.
Schedule(S) ==
    /\ scheduled' = [s \in ShardIds |-> scheduled[s] \/ s \in S]
    /\ runQueue' = [s \in ShardIds |->
                       runQueue[s] + (IF s \in S /\ ~scheduled[s] THEN 1 ELSE 0)]

\* contents.initialize(actor_ref): the Started signal is queued for the cell.
Initialize(c) ==
    [state |-> "Uninitialized", shard |-> ShardOf(c), signals |-> <<"Started">>,
     mailbox |-> <<>>, watchers |-> {}]

\* spawn_actor returning the reference of a cell that was not initialized.
SpawnActorUninitialized ==
    /\ next_id \in ActorIds
    /\ next_id' = next_id + 1
    /\ cell' = [cell EXCEPT ![next_id] =
                    [Initialize(next_id) EXCEPT !.signals = <<>>]]
    /\ UNCHANGED <<scheduled, runQueue, worker, sending, sent, obs, notified,
                   regs>>
    /\ UNCHANGED notRtVars

\* ActiveActorSystem::spawn / spawn_actor: take the next id, pick the shard,
\* build the cell, initialize it (the Started signal is queued and the shard
\* scheduled for the first run of the cell) and hand out the reference.
SpawnActor ==
    /\ next_id \in ActorIds
    /\ next_id' = next_id + 1
    /\ cell' = [cell EXCEPT ![next_id] = Initialize(next_id)]
    /\ Schedule({ShardOf(next_id)})
    /\ UNCHANGED <<worker, sending, sent, obs, notified, regs>>
    /\ UNCHANGED notRtVars

\* ActorRef::tell, first half: the weak handle is upgraded and the message
\* appended; a dropped cell makes the whole tell a no-op.
TellAppend(t, c) ==
    /\ sending[t] = 0
    /\ sent[t] < MaxSends
    /\ cell[c].state # "None"
    /\ sent' = [sent EXCEPT ![t] = @ + 1]
    /\ IF cell[c].state \in Live
       THEN /\ cell' = [cell EXCEPT ![c].mailbox =
                           Append(@, UserMsg(t, sent[t] + 1))]
            /\ sending' = [sending EXCEPT ![t] = c]
            /\ UNCHANGED obs
       ELSE /\ obs' = [obs EXCEPT ![c].lateTells = @ + 1]
            /\ UNCHANGED <<cell, sending>>
    /\ UNCHANGED <<next_id, scheduled, runQueue, worker, notified, regs>>
    /\ UNCHANGED notRtVars

\* ActorRef::tell, second half: schedule() on the shard of the reference.
TellSchedule(t) ==
    /\ sending[t] # 0
    /\ Schedule({cell[sending[t]].shard})
    /\ sending' = [sending EXCEPT ![t] = 0]
    /\ UNCHANGED <<next_id, cell, worker, sent, obs, notified, regs>>
    /\ UNCHANGED notRtVars

\* The number of termination messages for target t in the mailbox mb.
TermCount(mb, t) ==
    Cardinality({i \in 1..Len(mb) : mb[i] = TermMsg(t)})

\* A worker takes a run task of shard s off the dispatcher.
Pickup(w, s) ==
    /\ worker[w].pc = "idle"
    /\ runQueue[s] > 0
    /\ runQueue' = [runQueue EXCEPT ![s] = @ - 1]
    /\ worker' = [worker EXCEPT ![w] =
                      [pc |-> "run", shard |-> s, cur |-> NextCell(s, 0),
                       left |-> Throughput]]
    /\ UNCHANGED <<next_id, cell, scheduled, sending, sent, obs, notified, regs>>
    /\ UNCHANGED notRtVars

\* What a behaviour may do while it handles a signal or a message.
Effects(c) ==
    {[k |-> "none", t |-> {}], [k |-> "stop", t |-> {}]}
    \cup {[k |-> "watch", t |-> T] :
            T \in (SUBSET {d \in ActorIds \ {c} :
                             /\ c = FirstUserId
                             /\ cell[d].state # "None"
                             /\ regs[<<c, d>>] = "no"}) \ {{}}}

\* ctx.watch that registers with the target even when it has stopped.
WatchNoLateAnswer(cl, w, T) ==
    [d \in ActorIds |->
        IF d \in T THEN [cl[d] EXCEPT !.watchers = @ \cup {w}] ELSE cl[d]]

\* The termination messages of the targets of T, in the order of their ids.
RECURSIVE TermMsgs(_)
TermMsgs(T) ==
    IF T = {} THEN <<>>
    ELSE <<TermMsg(Min(T))>> \o TermMsgs(T \ {Min(T)})

\* ctx.watch called by w for every target of T: w registers with a live
\* target; a target that has already stopped is answered at once with the
\* termination message.
Watch(cl, w, T) ==
    LET gone == {t \in T : cl[t].state = "Stopped"} IN
    [d \in ActorIds |->
        IF d = w THEN [cl[d] EXCEPT !.mailbox = @ \o TermMsgs(gone)]
        ELSE IF d \in T \ gone THEN [cl[d] EXCEPT !.watchers = @ \cup {w}]
        ELSE cl[d]]

\* The cells after the behaviour of c did eff.
WithEffect(cl, c, eff) ==
    IF eff.k = "stop" THEN [cl EXCEPT ![c].state = "Stopping"]
    ELSE IF eff.k = "watch" THEN Watch(cl, c, eff.t)
    ELSE cl

\* The cell of c after its next signal or message was taken; signals go
\* before user messages, and Started makes the cell Running.
Taken(c) ==
    IF cell[c].signals # <<>>
    THEN [cell[c] EXCEPT !.signals = Tail(@),
                         !.state = IF @ = "Uninitialized" THEN "Running" ELSE @]
    ELSE [cell[c] EXCEPT !.mailbox = Tail(@)]

\* The worker passes the next signal or message of the visited cell to the
\* behaviour (receive_signal or receive), which reacts with one effect.
HandleOne(w) ==
    LET c == worker[w].cur IN
    /\ worker[w].pc = "run"
    /\ c # 0
    /\ worker[w].left > 0
    /\ cell[c].state \in Live
    /\ cell[c].signals # <<>> \/ cell[c].mailbox # <<>>
    /\ \E eff \in Effects(c) :
          LET late == {t \in eff.t : cell[t].state = "Stopped"}
              taken == [cell EXCEPT ![c] = Taken(c)]
              after == WithEffect(taken, c, eff)
          IN
          /\ cell' = after
          /\ regs' = [p \in ActorIds \X ActorIds |->
                         IF p[1] = c /\ p[2] \in eff.t
                         THEN (IF p[2] \in late THEN "late" ELSE "live")
                         ELSE regs[p]]
          /\ notified' = [p \in ActorIds \X ActorIds |->
                             notified[p]
                             + TermCount(after[p[1]].mailbox, p[2])
                             - TermCount(taken[p[1]].mailbox, p[2])]
          /\ Schedule(IF late # {} THEN {cell[c].shard} ELSE {})
    /\ obs' = IF cell[c].signals # <<>>
              THEN [obs EXCEPT ![c].started = TRUE,
                               ![c].queuedAtStart = Len(cell[c].mailbox)]
              ELSE [obs EXCEPT ![c].handled = @ + 1]
    /\ worker' = [worker EXCEPT ![w].left = @ - 1]
    /\ UNCHANGED <<next_id, sending, sent>>
    /\ UNCHANGED notRtVars

\* A stop sequence that tells the watchers and keeps the cell.
EmitStoppedOnly(cl, c) ==
    [d \in ActorIds |->
        IF d = c THEN [cl[c] EXCEPT !.watchers = {}]
        ELSE IF d \in cl[c].watchers /\ cl[d].state \in Live
        THEN [cl[d] EXCEPT !.mailbox = Append(@, TermMsg(c))]
        ELSE cl[d]]

\* The stop sequence of c: every watcher is told the termination message
\* once, the watcher set is drained and the cell dropped with whatever its
\* mailbox still holds.
CompleteStop(cl, c) ==
    [d \in ActorIds |->
        IF d = c THEN [cl[c] EXCEPT !.state = "Stopped", !.signals = <<>>,
                                    !.mailbox = <<>>, !.watchers = {}]
        ELSE IF d \in cl[c].watchers /\ cl[d].state \in Live
        THEN [cl[d] EXCEPT !.mailbox = Append(@, TermMsg(c))]
        ELSE cl[d]]

\* The worker runs the stop sequence of the visited cell, which is Stopping.
StopCell(w) ==
    LET c == worker[w].cur IN
    /\ worker[w].pc = "run"
    /\ c # 0
    /\ cell[c].state = "Stopping"
    /\ cell' = CompleteStop(cell, c)
    /\ Schedule({cell[d].shard : d \in {x \in cell[c].watchers :
                                            cell[x].state \in Live}})
    /\ notified' = [p \in ActorIds \X ActorIds |->
                       IF p[1] = c THEN notified[p]
                       ELSE notified[p]
                            + TermCount(CompleteStop(cell, c)[p[1]].mailbox, p[2])
                            - TermCount(cell[p[1]].mailbox, p[2])]
    /\ obs' = [d \in ActorIds |->
                  IF d = c
                  THEN [obs[c] EXCEPT !.emitted = TRUE,
                                      !.dropped = Len(cell[c].mailbox)]
                  ELSE IF d \in cell[c].watchers /\ cell[d].state = "Stopped"
                  THEN [obs[d] EXCEPT !.lateTells = @ + 1]
                  ELSE obs[d]]
    /\ UNCHANGED <<next_id, worker, sending, sent, regs>>
    /\ UNCHANGED notRtVars

\* The visit of a cell ends when it has nothing left or the throughput is
\* used up: go on to the next cell of the shard; after the last one test
\* the shard and either submit the run task again, keeping the flag, or go
\* on to clear the flag.
FinishVisit(w) ==
    LET c == worker[w].cur
        s == worker[w].shard
        n == NextCell(s, c)
    IN
    /\ worker[w].pc = "run"
    /\ ~HasWork(c) \/ worker[w].left = 0
    /\ IF c # 0 /\ n # 0
       THEN /\ worker' = [worker EXCEPT ![w].cur = n, ![w].left = Throughput]
            /\ UNCHANGED runQueue
       ELSE IF ShardHasWork(s)
       THEN /\ runQueue' = [runQueue EXCEPT ![s] = @ + 1]
            /\ worker' = [worker EXCEPT ![w] = IdleWorker]
       ELSE /\ worker' = [worker EXCEPT ![w].pc = "clear", ![w].cur = 0,
                                        ![w].left = 0]
            /\ UNCHANGED runQueue
    /\ UNCHANGED <<next_id, cell, scheduled, sending, sent, obs, notified, regs>>
    /\ UNCHANGED notRtVars

\* The run task found every mailbox empty and clears the scheduled flag.
ClearScheduled(w) ==
    /\ worker[w].pc = "clear"
    /\ scheduled' = [scheduled EXCEPT ![worker[w].shard] = FALSE]
    /\ worker' = [worker EXCEPT ![w].pc = "recheck"]
    /\ UNCHANGED <<next_id, cell, runQueue, sending, sent, obs, notified, regs>>
    /\ UNCHANGED notRtVars

\* A run task that ends right after clearing the flag.
EndWithoutRecheck(w) ==
    /\ worker[w].pc = "recheck"
    /\ worker' = [worker EXCEPT ![w] = IdleWorker]
    /\ UNCHANGED <<next_id, cell, scheduled, runQueue, sending, sent, obs,
                   notified, regs>>
    /\ UNCHANGED notRtVars

\* After clearing the flag the run task looks at the mailboxes once more
\* and schedules the shard again when something arrived meanwhile.
Recheck(w) ==
    /\ worker[w].pc = "recheck"
    /\ Schedule(IF ShardHasWork(worker[w].shard) THEN {worker[w].shard} ELSE {})
    /\ worker' = [worker EXCEPT ![w] = IdleWorker]
    /\ UNCHANGED <<next_id, cell, sending, sent, obs, notified, regs>>
    /\ UNCHANGED notRtVars

RuntimeInit ==
    /\ MailboxVarsInit /\ DetachedVarsInit /\ RuntimeVarsInit
    /\ LogicVarsNone("none") /\ SystemVarsNone

RuntimeNext ==
    \/ SpawnActor
    \/ \E t \in Senders, c \in ActorIds : TellAppend(t, c)
    \/ \E t \in Senders : TellSchedule(t)
    \/ \E w \in Workers, s \in ShardIds : Pickup(w, s)
    \/ \E w \in Workers : HandleOne(w)
    \/ \E w \in Workers : StopCell(w)
    \/ \E w \in Workers : FinishVisit(w)
    \/ \E w \in Workers : ClearScheduled(w)
    \/ \E w \in Workers : Recheck(w)

RuntimeSpec == RuntimeInit /\ [][RuntimeNext]_vars

\* The dispatcher runs every submitted task and every worker goes on with
\* the task it has taken; a thread inside tell finishes its call.
RuntimeFairness ==
    /\ \A s \in ShardIds : WF_vars(\E w \in Workers : Pickup(w, s))
    /\ \A w \in Workers :
          WF_vars(HandleOne(w) \/ StopCell(w) \/ FinishVisit(w)
                  \/ ClearScheduled(w) \/ Recheck(w))
    /\ \A t \in Senders : WF_vars(TellSchedule(t))

FairRuntimeSpec == RuntimeSpec /\ RuntimeFairness

(***************************************************************************)
(* Properties of the mailbox.                                              *)
(***************************************************************************)
\* C3: messages appended by one thread are retrieved in the order that
\* thread appended them, through one appender or through an appender and its
\* clone, whatever other threads append in between.
MailboxFifoPerAppender ==
    \A i, j \in 1..Len(retrieved) :
        (i < j /\ retrieved[i].th = retrieved[j].th)
            => retrieved[i].n < retrieved[j].n

\* Two messages of one thread sent through different appenders were retrieved
\* with a message of another thread between them.
MailboxFifoWitness ==
    \E i, j, k \in 1..Len(retrieved) :
        /\ i < k /\ k < j
        /\ retrieved[i].th = retrieved[j].th
        /\ retrieved[i].ap # retrieved[j].ap
        /\ retrieved[k].th # retrieved[i].th

\* C4: while the mailbox exists every message whose append returned is
\* either still in the channel or was retrieved, exactly once; retrieve can
\* always be called and answers None exactly when nothing appended was
\* unretrieved at the call.
MailboxExactlyOnce ==
    /\ Cardinality(Range(retrieved)) = Len(retrieved)
    /\ Range(retrieved) \subseteq appended
    /\ mbAlive =>
          /\ Range(retrieved) \cup Range(chan) = appended
          /\ Len(retrieved) + Len(chan) = Cardinality(appended)
          /\ ENABLED Retrieve
    /\ lastRetrieve.called => (lastRetrieve.some <=> lastRetrieve.pending > 0)

\* retrieve answered None after every appended message had been retrieved.
MailboxExactlyOnceWitness ==
    /\ mbAlive
    /\ lastRetrieve.called /\ ~lastRetrieve.some
    /\ Len(retrieved) = MaxThreads * MaxAppends
    /\ chan = <<>>

\* C5: an append made after the mailbox was dropped returns normally and
\* leaves the channel, the appenders and every thread as they were; the
\* thread is never stopped by it and can append again.
AppendAfterDropIsNoop ==
    /\ [](\A t \in Threads : tstat[t] = "run")
    /\ [][(~mbAlive /\ tcount' # tcount) =>
            /\ chan' = chan /\ mbAlive' = mbAlive /\ appenders' = appenders
            /\ tstat' = tstat /\ retrieved' = retrieved
            /\ appended' = appended /\ lastRetrieve' = lastRetrieve
            /\ discarded' = discarded + 1]_vars

\* One thread made two appends after the drop, the second through a handle
\* that had already seen a discarded append.
AppendAfterDropWitness ==
    /\ ~mbAlive
    /\ discarded >= 2
    /\ \E t \in Threads : tcount[t] = MaxAppends /\ appended = {}


(***************************************************************************)
(* Properties of the detached boundary.                                    *)
(***************************************************************************)
\* C9: the buffer of the detached actor never holds more than BUFFER_SIZE
\* elements.
DetachedBufferBound == Len(buffer) <= BUFFER_SIZE

\* The buffer is full and the producer is parked until an element is popped.
DetachedBufferFullWitness ==
    /\ Len(buffer) = BUFFER_SIZE
    /\ producer
    /\ Len(produced) = BUFFER_SIZE

\* C10: completed() is called on a downstream that has not cancelled only
\* when the buffer is empty, every element received from the upstream having
\* been delivered first.
CompletionAfterDrain ==
    \A i \in 1..Len(downEvents) :
        (downEvents[i].ev = "completed" /\ ~downEvents[i].afterCancel)
            => downEvents[i].buf = 0

\* Elements the actor has asked the upstream for: the request(1) calls made
\* and the one still waiting on the dispatcher.
RequestedUpstream == upRequests + (IF reqTask THEN 1 ELSE 0)

\* The produced calls among the first n calls made on the downstream.
ProducedCalls(n) == {i \in 1..n : downEvents[i].ev = "produced"}

\* Elements the actor has popped from its buffer for the downstream: the
\* produced calls made and the one still waiting on the dispatcher.
HandedDownstream == Cardinality(ProducedCalls(Len(downEvents))) + Len(prodTask)

\* The downstream took exactly one element and then cancelled.
TookOneThenCancelled ==
    /\ down = "cancelled"
    /\ Cardinality({i \in ProducedCalls(Len(downEvents)) :
                       ~downEvents[i].afterCancel}) = 1

\* C11: the elements requested from the upstream exceed the elements handed
\* to the downstream by at most BUFFER_SIZE; when the downstream took one
\* element and then cancelled, at most BUFFER_SIZE + 1 elements have left
\* the upstream.
DetachedBackpressure ==
    /\ RequestedUpstream <= HandedDownstream + BUFFER_SIZE
    /\ Len(produced) <= RequestedUpstream
    /\ TookOneThenCancelled => Len(produced) <= BUFFER_SIZE + 1

\* The downstream took one element and cancelled, and BUFFER_SIZE + 1
\* elements have left the upstream.
DetachedBackpressureWitness ==
    /\ TookOneThenCancelled
    /\ Len(produced) = BUFFER_SIZE + 1
    /\ up = "cancelled"

\* The upstream of the detached boundary has terminated: it was cancelled,
\* or it completed or failed by itself.
UpstreamTerminated == up \in {"cancelled", "done"}

\* C12: after the downstream has cancelled the upstream is eventually
\* terminated: the producer of the detached boundary is cancelled, unless
\* it completed or failed first; in the stream of Logic stages the cancel
\* of the sink reaches the Iterator, which completes, and the iterator
\* yields no element once the sink has cancelled.
CancelPropagation ==
    /\ (down = "cancelled") ~> UpstreamTerminated
    /\ (sink = "cancelled") ~> (stage[IteratorStage] = "done")
    /\ [][sink = "cancelled" => iterator' = iterator]_vars

\* The downstream cancelled while a request was with the upstream, and the
\* producer was cancelled when it came back with an element.
CancelPropagationWitness ==
    /\ down = "cancelled"
    /\ cancelled
    /\ up = "cancelled"
    /\ Len(produced) > Cardinality(ProducedCalls(Len(downEvents)))

\* The calls of kind ev among the calls made on the downstream.
CallsOf(ev) == {i \in 1..Len(downEvents) : downEvents[i].ev = ev}

\* The detached actor has processed the Failed message of its upstream.
FailedProcessed ==
    /\ up = "done"
    /\ ~completed
    /\ \A i \in 1..Len(inbox) : inbox[i].t \notin {"Completed", "Failed"}

\* The actor is about to handle a message of the given type, and the step
\* handles it.
Handles(type) == Receiving(type) /\ inbox' = Tail(inbox)

\* C13: once Failed was processed no element is popped from the buffer; the
\* error is handed to the downstream at most once and is kept until then, in
\* the Failed handler when a consumer is parked and else by the next
\* Requested, which pops nothing; no element is pushed after the error.
FailurePropagation ==
    /\ [](/\ Cardinality(CallsOf("failed")) <= 1
          /\ \A i \in CallsOf("failed"), j \in CallsOf("produced") : j < i
          /\ FailedProcessed =>
                (failed <=> CallsOf("failed") = {}))
    /\ [][/\ FailedProcessed =>
                (buffer' = buffer /\ (prodTask' # prodTask => prodTask' = <<>>))
          /\ (Handles("Failed") /\ consumer) =>
                (Cardinality(CallsOf("failed"))' = 1 /\ ~failed')
          /\ (Handles("Requested") /\ failed) =>
                (Cardinality(CallsOf("failed"))' = 1 /\ ~failed')]_vars

\* The error was handed over by a Requested that found elements buffered,
\* and these stayed in the buffer.
FailurePropagationWitness ==
    /\ \E i \in CallsOf("failed") :
          downEvents[i].buf > 0 /\ ~downEvents[i].afterCancel
    /\ buffer # <<>>
    /\ ~failed
    /\ down = "failed"

\* The demand of the Requested messages still in the mailbox of the actor.
RECURSIVE QueuedDemand(_)
QueuedDemand(box) ==
    IF box = <<>> THEN 0
    ELSE (IF Head(box).t = "Requested" THEN Head(box).n ELSE 0)
         + QueuedDemand(Tail(box))

\* C14: at every stage boundary the elements pushed downstream never exceed
\* the elements pulled by the downstream; Filter and TakeWhile push at most
\* once per Pushed event and for no other event, Iterator at most once per
\* Pulled event; the demand counter of the detached actor is the demand it
\* received less one per element delivered (a Requested answered with the
\* end of the stream adds nothing), and never negative.
SingleDemand ==
    /\ \A s \in Stages :
          /\ Len(pushed[s]) <= pulled[s]
          /\ pulled[s] <= pulls[s + 1]
          /\ (last.s = s /\ last.a = "Push") =>
                last.e = (IF s = IteratorStage THEN "Pulled" ELSE "Pushed")
    /\ \A s \in {FilterStage, TakeWhileStage} : Len(pushed[s]) <= Len(seen[s])
    /\ Len(seen[SinkStage]) <= pulls[SinkStage]
    /\ HandedDownstream <= downDemand
    /\ demand >= 0
    /\ demand + HandedDownstream + QueuedDemand(inbox) <= downDemand
    /\ (CallsOf("completed") \cup CallsOf("failed") = {}) =>
          demand + HandedDownstream + QueuedDemand(inbox) = downDemand

\* The sink pulled twice and got two elements, while Filter was pushed three
\* and rejected one of them.
SingleDemandWitness ==
    /\ pulls[SinkStage] = 2
    /\ Len(seen[SinkStage]) = 2
    /\ Len(seen[FilterStage]) = 3
    /\ Len(pushed[FilterStage]) = 2

\* C15 as stated: Filter, TakeWhile and the detached boundary forward at
\* most as many pulls to their upstream as they received from their
\* downstream.
PullConservationAsStated ==
    /\ pulls[FilterStage] <= pulled[FilterStage]
    /\ pulls[TakeWhileStage] <= pulled[TakeWhileStage]
    /\ RequestedUpstream <= downDemand

\* The elements Filter was pushed and did not push on.
Rejected == Len(seen[FilterStage]) - Len(pushed[FilterStage])

\* C15, amended: TakeWhile forwards at most as many pulls as it received;
\* Filter forwards at most one pull per pull received and one per element
\* it rejected; the detached boundary is ahead of the demand it received by
\* at most BUFFER_SIZE requests.
PullConservation ==
    /\ pulls[TakeWhileStage] <= pulled[TakeWhileStage]
    /\ pulls[FilterStage] <= pulled[FilterStage] + Rejected
    /\ RequestedUpstream <= downDemand + BUFFER_SIZE

\* Filter rejected an element and pulled again on its own.
PullConservationWitness ==
    /\ Rejected = 1
    /\ pulls[FilterStage] = pulled[FilterStage] + 1
    /\ pulls[TakeWhileStage] = pulled[TakeWhileStage]
    /\ Len(seen[SinkStage]) = 1

\* This step is the detached actor handling a message of the given type.
Handled(type) ==
    /\ Receiving(type)
    /\ inbox' = Tail(inbox)

DemandWithRequest == demand + Head(inbox).n

CancelHandled ==
    /\ down = "cancelled"
    /\ \A i \in DOMAIN inbox : inbox[i].t # "Cancelled"

\* The elements handed to the downstream consumer after it had cancelled.
DeliveredAfterCancel ==
    {i \in DOMAIN downEvents :
        downEvents[i].ev = "produced" /\ downEvents[i].afterCancel}

\* C29: once Cancelled is handled the buffer is empty and stays empty, and
\* no element is handed to the downstream consumer after its cancel.
CancelDropsBuffer ==
    /\ CancelHandled => buffer = <<>>
    /\ DeliveredAfterCancel = {}

\* The elements of the consumer.produced calls made so far, in order.
DeliveredElems ==
    LET calls == SelectSeq(downEvents, LAMBDA c : c.ev = "produced")
    IN  [i \in 1..Len(calls) |-> calls[i].el]

\* The elements of the Produced messages the actor has not handled yet.
InboxElems ==
    LET msgs == SelectSeq(inbox, LAMBDA m : m.t = "Produced")
    IN  [i \in 1..Len(msgs) |-> msgs[i].el]

\* The elements the actor has received from the upstream, in order.
ReceivedElems ==
    SubSeq(produced, 1, Len(produced) - Len(InboxElems))

\* C30: the elements handed to the downstream (delivered or in the task
\* that delivers them) followed by the buffer are the elements received
\* from the upstream, in order and without duplicates.
ElementConservation ==
    /\ DeliveredElems \o prodTask \o buffer = ReceivedElems
    /\ ReceivedElems \o InboxElems = produced
    /\ Len(DeliveredElems) + Len(prodTask) = Len(ReceivedElems) - Len(buffer)
    /\ \A i, j \in DOMAIN produced : i < j => produced[i] < produced[j]

\* One element was delivered, the next is on its way to the consumer and a
\* third is buffered.
ElementConservationWitness ==
    /\ Len(DeliveredElems) = 1
    /\ prodTask # <<>>
    /\ buffer # <<>>

\* A message of the upstream is in the mailbox of the actor.
UpstreamInFlight ==
    \E i \in DOMAIN inbox :
        inbox[i].t \in {"Started", "Produced", "Completed", "Failed"}

\* C31: while a producer is parked the buffer holds exactly BUFFER_SIZE
\* elements and nothing is outstanding at the upstream; a producer is
\* parked only by a Produced that fills the buffer, and the first pop that
\* follows releases it with request(1) (a cancel releases it with cancel).
ProducerParkedWhenFull ==
    /\ [](producer =>
            /\ Len(buffer) = BUFFER_SIZE
            /\ up = "idle"
            /\ ~reqTask
            /\ ~UpstreamInFlight)
    /\ [][(~producer /\ producer') =>
            (Handled("Produced") /\ Len(buffer') = BUFFER_SIZE)]_vars
    /\ [][(producer /\ Len(buffer') < Len(buffer)) =>
            (~producer' /\ reqTask')]_vars
    /\ [][(producer /\ ~producer') =>
            \/ (Handled("Requested") /\ reqTask' /\ buffer' = Tail(buffer))
            \/ (Handled("Cancelled") /\ up' = "cancelled")]_vars
    /\ [][(Handled("Produced") /\ ~cancelled /\ Len(buffer') < BUFFER_SIZE) =>
            (reqTask' /\ ~producer')]_vars

\* The producer was parked, released by a pop, and is parked again with a
\* full buffer after an element was delivered.
ProducerParkedWhenFullWitness ==
    /\ producer
    /\ Len(buffer) = BUFFER_SIZE
    /\ Len(DeliveredElems) >= 1
    /\ upRequests = BUFFER_SIZE + 1

\* The terminal calls made on the downstream consumer.
TerminalCalls == CallsOf("completed") \cup CallsOf("failed")

\* The places that hold the consumer handle: the actor (parked), a message
\* to the actor, the task that calls consumer.produced, the downstream.
ConsumerHandles ==
    (IF consumer THEN 1 ELSE 0)
    + Cardinality({i \in DOMAIN inbox :
                     inbox[i].t \in {"Attached", "Requested", "Cancelled"}})
    + Len(prodTask)
    + (IF down = "holding" THEN 1 ELSE 0)

\* C32: the downstream consumer gets at most one terminal call, which is
\* the last call made on it; the consumer handle is in at most one place,
\* and in none once the terminal call is made.
SingleTerminal ==
    /\ Cardinality(TerminalCalls) <= 1
    /\ \A i \in TerminalCalls : i = Len(downEvents)
    /\ ConsumerHandles <= 1
    /\ TerminalCalls # {} => ConsumerHandles = 0
    /\ ConsumerHandles = 0 => (TerminalCalls # {} \/ down = "cancelled")

\* The downstream was handed an element and then completed by a Requested
\* that found the stream completed.
SingleTerminalWitness ==
    /\ CallsOf("produced") # {}
    /\ CallsOf("completed") # {}
    /\ ~consumer
    /\ down = "completed"

(***************************************************************************)
(* Properties of the Logic stages.                                         *)
(***************************************************************************)
\* The first n elements of the sequence q.
Prefix(q, n) == SubSeq(q, 1, n)

\* Filter and TakeWhile let every element pass.
PassAll == filter = Elems /\ while_fn = Elems

\* C16: the i-th Pulled event of the Iterator pushes the i-th element of the
\* iterator and the Pulled event after the last element completes it; a
\* sink that keeps pulling behind stages that pass everything gets the
\* elements in order and then the completion.
IteratorInOrder ==
    /\ source = pushed[IteratorStage] \o iterator
    /\ Len(pushed[IteratorStage]) =
          (IF pulled[IteratorStage] <= Len(source)
           THEN pulled[IteratorStage] ELSE Len(source))
    /\ pulled[IteratorStage] <= Len(source) + 1
    /\ pulled[IteratorStage] = Len(source) + 1 =>
          stage[IteratorStage] = "done"
    /\ (last.s = IteratorStage /\ last.e = "Pulled") =>
          last.a = (IF pulled[IteratorStage] <= Len(source)
                    THEN "Push" ELSE "Complete")
    /\ PassAll =>
          /\ seen[SinkStage] = Prefix(source, Len(seen[SinkStage]))
          /\ sink = "completed" => seen[SinkStage] = source

\* The sink got every element of an iterator of full length, then the
\* completion.
IteratorInOrderWitness ==
    /\ PassAll
    /\ Len(source) = MaxIter
    /\ source[1] # source[2]
    /\ sink = "completed"
    /\ seen[SinkStage] = source
    /\ pulls[SinkStage] = MaxIter + 1

\* The elements of the sequence q that the predicate f accepts, in order.
Accepted(q, f) == SelectSeq(q, LAMBDA x : x \in f)

\* Filter has been pulled more often than it has pushed and still runs.
FilterOwes ==
    /\ pulled[FilterStage] > Len(pushed[FilterStage])
    /\ stage[FilterStage] = "running"

\* C17: what Filter has pushed is the subsequence of what it was pushed
\* that satisfies the predicate, in order; every rejected element caused a
\* Pull and no Push; a pull of its downstream is eventually answered by an
\* element or by the end of the stream.
FilterSubsequence ==
    /\ [](/\ pushed[FilterStage] = Accepted(seen[FilterStage], filter)
          /\ seen[TakeWhileStage] =
                Prefix(pushed[FilterStage], Len(seen[TakeWhileStage]))
          /\ pulls[FilterStage] = pulled[FilterStage] + Rejected)
    /\ []<>~FilterOwes

\* Filter rejected the first element it was pushed and pushed two later
\* ones on.
FilterSubsequenceWitness ==
    /\ Len(seen[FilterStage]) = 3
    /\ seen[FilterStage][1] \notin filter
    /\ Len(pushed[FilterStage]) = 2
    /\ seen[TakeWhileStage] = pushed[FilterStage]

\* The longest prefix of q whose elements the predicate f all accepts.
RECURSIVE LongestPrefix(_, _)
LongestPrefix(q, f) ==
    IF q = <<>> \/ Head(q) \notin f THEN <<>>
    ELSE <<Head(q)>> \o LongestPrefix(Tail(q), f)

\* TakeWhile was pushed an element that fails the predicate.
TakeWhileFailed == \E i \in DOMAIN seen[TakeWhileStage] :
                      seen[TakeWhileStage][i] \notin while_fn

\* This step hands TakeWhile an element that fails the predicate.
TakeWhileFails ==
    /\ ~TakeWhileFailed
    /\ TakeWhileFailed'

\* C18: what TakeWhile has pushed is the longest prefix of its input that
\* satisfies the predicate; the first failing element is answered with
\* Complete and not pushed, upstream is cancelled, and nothing is pushed
\* downstream afterwards.
TakeWhilePrefix ==
    /\ [](/\ pushed[TakeWhileStage] =
                LongestPrefix(seen[TakeWhileStage], while_fn)
          /\ seen[SinkStage] =
                Prefix(pushed[TakeWhileStage], Len(seen[SinkStage]))
          /\ TakeWhileFailed =>
                /\ stage[TakeWhileStage] = "done"
                /\ seen[TakeWhileStage][Len(seen[TakeWhileStage])] \notin while_fn
                /\ Len(pushed[TakeWhileStage]) = Len(seen[TakeWhileStage]) - 1)
    /\ [][TakeWhileFails =>
            /\ last' = [s |-> TakeWhileStage, e |-> "Pushed", a |-> "Complete"]
            /\ pushed' = pushed
            /\ events' = Tail(events) \o
                 <<[to |-> SinkStage, ev |-> Event("Stopped", 0)],
                   [to |-> FilterStage, ev |-> Event("Cancelled", 0)]>>]_vars
    /\ [][TakeWhileFailed => pushed'[TakeWhileStage] = pushed[TakeWhileStage]]_vars
    /\ TakeWhileFailed ~> (\A s \in Stages : stage[s] = "done")

\* TakeWhile passed an element on and then completed on a failing one,
\* while the source still held an element that satisfies the predicate.
TakeWhilePrefixWitness ==
    /\ TakeWhileFailed
    /\ Len(seen[SinkStage]) = 1
    /\ iterator # <<>>
    /\ Head(iterator) \in while_fn \cap filter
    /\ \A s \in Stages : stage[s] = "done"

(***************************************************************************)
(* Properties of the actor runtime.                                        *)
(***************************************************************************)
\* A worker holds shard s from taking its run task until it clears the
\* scheduled flag; this is the part of the run task that visits cells.
Holding(w, s) == worker[w].shard = s /\ worker[w].pc \in {"run", "clear"}

\* A worker is somewhere in the run task of shard s.
Executing(w, s) ==
    worker[w].shard = s /\ worker[w].pc \in {"run", "clear", "recheck"}

Told(c) ==
    {i \in 1..Len(cell[c].mailbox) :
        \A t \in Senders :
            ~(sending[t] = c /\ cell[c].mailbox[i] = UserMsg(t, sent[t]))}

Waiting(c) ==
    /\ cell[c].state \in Live
    /\ cell[c].signals # <<>> \/ Told(c) # {}

\* No live cell waits with a signal or a told message while no run task of
\* its shard is queued or being executed.
NoStrandedMessage ==
    \A c \in ActorIds :
        Waiting(c) =>
            \/ runQueue[cell[c].shard] > 0
            \/ \E w \in Workers : Executing(w, cell[c].shard)

StartedFirst ==
    \A c \in ActorIds :
        /\ obs[c].handled > 0 => obs[c].started
        /\ cell[c].state = "Uninitialized" => obs[c].handled = 0

\* A message was told before the first run of the cell, and was received
\* after Started.
StartedFirstWitness ==
    \E c \in ActorIds : obs[c].queuedAtStart > 0 /\ obs[c].handled > 0

\* C7: once an actor has emitted Stopped to its watchers its receive is not
\* invoked again and its mailbox takes no message.
StopFinality ==
    [][\A c \in ActorIds :
          obs[c].emitted =>
              /\ obs'[c].handled = obs[c].handled
              /\ obs'[c].started = obs[c].started
              /\ cell'[c].mailbox = <<>>]_vars

\* An actor stopped with a message still queued, and was told another
\* message afterwards.
StopFinalityWitness ==
    \E c \in ActorIds :
        obs[c].emitted /\ obs[c].dropped > 0 /\ obs[c].lateTells > 0

\* The number of termination messages for target t in the mailbox of w.
QueuedTerm(w, t) == TermCount(cell[w].mailbox, t)

\* C8: a watcher gets at most one termination message per target, and only
\* for a target it registered with and that has stopped; a watcher that has
\* not stopped itself has got the message of every stopped target it
\* registered with, be the registration made before or after the stop.
WatchExactlyOnce ==
    \A w, t \in ActorIds :
        /\ notified[<<w, t>>] <= 1
        /\ QueuedTerm(w, t) <= notified[<<w, t>>]
        /\ notified[<<w, t>>] = 1 => (regs[<<w, t>>] # "no" /\ obs[t].emitted)
        /\ (regs[<<w, t>>] # "no" /\ obs[t].emitted /\ ~obs[w].emitted)
               => notified[<<w, t>>] = 1

\* One actor watched two targets, one before and one after it stopped, and
\* was told one termination message for each.
WatchExactlyOnceWitness ==
    \E w, t, u \in ActorIds :
        /\ t # u
        /\ regs[<<w, t>>] = "live" /\ regs[<<w, u>>] = "late"
        /\ notified[<<w, t>>] = 1 /\ notified[<<w, u>>] = 1

(***************************************************************************)
(* The actor system: ActorSystem::start, spawning from the user context    *)
(* and the control loop of ActiveActorSystem::join.  The watcher is told   *)
(* DrainSystem and StopSystem with a callback that sends Done.             *)
(***************************************************************************)
\* ActorSystemContext::spawn_actor: the ActorRef of the new actor and the
\* counters of the contexts afterwards.
\* context.shards.len(): the system context is created with Some(0)
\* shards, the user context with config.shards().
ShardCount(context) == IF context = "system_context" THEN 0 ELSE NumShards

\* The shard selection of spawn_actor where the dispatcher the actor
\* configures is ignored.
SelectShardIgnoresDispatcher(context, actor_id, custom_dispatcher) ==
    IF ShardCount(context) = 0
    THEN [kind |-> "system_shard", context |-> context, n |-> 0]
    ELSE [kind |-> "shards", context |-> context,
          n |-> actor_id % ShardCount(context)]

\* The shard spawn_actor selects: without a custom dispatcher the system
\* shard of a context without shards, else shards[actor_id % s]; with a
\* custom dispatcher a new shard, named here after the actor it is made for.
SelectShard(context, actor_id, custom_dispatcher) ==
    IF ~custom_dispatcher
    THEN IF ShardCount(context) = 0
         THEN [kind |-> "system_shard", context |-> context, n |-> 0]
         ELSE [kind |-> "shards", context |-> context,
               n |-> actor_id % ShardCount(context)]
    ELSE [kind |-> "new", context |-> context, n |-> actor_id]

spawn_actor(ids, context, actor_type, custom_dispatcher) ==
    [ref |-> [id |-> ids[context], actor_type |-> actor_type,
              context |-> context, custom |-> custom_dispatcher,
              shard |-> SelectShard(context, ids[context], custom_dispatcher)],
     ids |-> [ids EXCEPT ![context] = @ + 1]]

\* The references ActorSystem::start gives a context: none to the system
\* context, the timer and the watcher to the user context.
timer_ref(context) == context = "context"

watcher_ref(context) == context = "context"

\* ActorSystem::start: the timer and the watcher are spawned from the system
\* context, then the user context is created; the ActiveActorSystem holds
\* the context held.
SystemVarsStarted(held) ==
    LET initial_id == [c \in Contexts |->
                          IF c = "system_context" THEN FirstSystemId
                                                  ELSE FirstUserId]
        timer == spawn_actor(initial_id, "system_context", "System", FALSE)
        watcher == spawn_actor(timer.ids, "system_context", "System", FALSE)
    IN  /\ next_ids = watcher.ids
        /\ refs = {timer.ref, watcher.ref}
        /\ channel = <<>>
        /\ joined = "idle"
        /\ timeouts = 0
        /\ received = <<>>
        /\ requests = 0
        /\ timer_stops = 0
        /\ watcher_mail = <<>>
        /\ done_fns = <<>>
        /\ registered = {}
        /\ system_stopped = FALSE
        /\ spawning = [t \in Spawners |-> <<>>]
        /\ active = held
        /\ timer_schedules = 0
        /\ panics = <<>>

\* ActorSystem::start returns an ActiveActorSystem over the user context.
SystemVarsInit == SystemVarsStarted("context")

\* The user actors spawned so far.
UserRefs == {r \in refs : r.actor_type \in {"Root", "Child"}}

\* ActiveActorSystem::spawn and ActorSystemContext::spawn_anonymous_actor:
\* a root actor is spawned from the user context and registers itself with
\* the watcher.
SystemSpawn ==
    /\ joined # "none"
    /\ Cardinality(UserRefs) < MaxSpawns
    /\ \E custom_dispatcher \in BOOLEAN :
        LET spawned == spawn_actor(next_ids, active, "Root",
                                   custom_dispatcher)
        IN  /\ next_ids' = spawned.ids
            /\ refs' = refs \cup {spawned.ref}
            /\ registered' = registered \cup {spawned.ref.id}
    /\ UNCHANGED <<channel, joined, timeouts, received, requests,
                   timer_stops, watcher_mail, done_fns,
                   system_stopped, spawning, active, timer_schedules,
                   panics>>
    /\ UNCHANGED notSysVars

\* sender.send(msg): the message is lost once join() has returned and
\* dropped the receiver.
Send(ch, msg) ==
    IF joined \in {"returned", "panicked"} THEN ch ELSE Append(ch, msg)

\* ActorSystemContext::drain.
ContextDrain ==
    /\ joined # "none"
    /\ requests < MaxRequests
    /\ requests' = requests + 1
    /\ channel' = Send(channel, "Drain")
    /\ UNCHANGED <<spawning, active, timer_schedules, panics,
                   next_ids, refs, joined, timeouts, received, timer_stops,
                   watcher_mail, done_fns, registered,
                   system_stopped>>
    /\ UNCHANGED notSysVars

\* ActorSystemContext::stop.
ContextStop ==
    /\ joined # "none"
    /\ requests < MaxRequests
    /\ requests' = requests + 1
    /\ channel' = Send(channel, "Stop")
    /\ UNCHANGED <<spawning, active, timer_schedules, panics,
                   next_ids, refs, joined, timeouts, received, timer_stops,
                   watcher_mail, done_fns, registered,
                   system_stopped>>
    /\ UNCHANGED notSysVars

\* The main thread calls join().
Join ==
    /\ joined = "idle"
    /\ joined' = "looping"
    /\ UNCHANGED <<spawning, active, timer_schedules, panics,
                   next_ids, refs, channel, timeouts, received, requests,
                   timer_stops, watcher_mail, done_fns, registered,
                   system_stopped>>
    /\ UNCHANGED notSysVars

\* Who holds a sender of the control channel: both contexts, and the
\* ActiveActorSystem until join() returns.
SenderHolders ==
    Contexts \cup (IF joined \in {"returned", "panicked"}
                   THEN {} ELSE {"ActiveActorSystem"})

\* receiver.recv_timeout on the channel ch.
RecvTimeout(ch) ==
    IF ch # <<>> THEN Head(ch)
    ELSE IF SenderHolders = {} THEN "Disconnected"
    ELSE "Timeout"

\* The match of join() where a Drain is passed on as StopSystem.
JoinMatchDrainStopsSystem(context, res) ==
    CASE res = "Timeout" -> [tell |-> "None", timer |-> FALSE, break |-> FALSE,
             panic |-> "None"]
      [] res = "Disconnected" ->
            [tell |-> "None", timer |-> FALSE, break |-> TRUE,
             panic |-> "None"]
      [] res \in {"Drain", "Stop"} ->
            [tell |-> "StopSystem", timer |-> FALSE, break |-> FALSE,
             panic |-> "None"]
      [] res = "Done" -> [tell |-> "None", timer |-> TRUE, break |-> TRUE,
             panic |-> "None"]

\* The match of join() where the loop goes on after Done.
JoinMatchDoneContinues(context, res) ==
    CASE res = "Timeout" -> [tell |-> "None", timer |-> FALSE, break |-> FALSE,
             panic |-> "None"]
      [] res = "Disconnected" ->
            [tell |-> "None", timer |-> FALSE, break |-> TRUE,
             panic |-> "None"]
      [] res = "Drain" ->
            [tell |-> "DrainSystem", timer |-> FALSE, break |-> FALSE,
             panic |-> "None"]
      [] res = "Stop" ->
            [tell |-> "StopSystem", timer |-> FALSE, break |-> FALSE,
             panic |-> "None"]
      [] res = "Done" -> [tell |-> "None", timer |-> TRUE, break |-> FALSE,
             panic |-> "None"]

\* The match of join() where Drain is received and nothing is told to the
\* watcher.
JoinMatchIgnoresDrain(context, res) ==
    CASE res = "Timeout" -> [tell |-> "None", timer |-> FALSE, break |-> FALSE,
             panic |-> "None"]
      [] res = "Disconnected" ->
            [tell |-> "None", timer |-> FALSE, break |-> TRUE,
             panic |-> "None"]
      [] res = "Drain" -> [tell |-> "None", timer |-> FALSE, break |-> FALSE,
             panic |-> "None"]
      [] res = "Stop" ->
            [tell |-> "StopSystem", timer |-> FALSE, break |-> FALSE,
             panic |-> "None"]
      [] res = "Done" -> [tell |-> "None", timer |-> TRUE, break |-> TRUE,
             panic |-> "None"]

\* The match of join() where Drain leaves the loop as Done does.
JoinMatchDrainExits(context, res) ==
    CASE res = "Timeout" -> [tell |-> "None", timer |-> FALSE, break |-> FALSE,
             panic |-> "None"]
      [] res = "Disconnected" ->
            [tell |-> "None", timer |-> FALSE, break |-> TRUE,
             panic |-> "None"]
      [] res = "Drain" ->
            [tell |-> "DrainSystem", timer |-> FALSE, break |-> TRUE,
             panic |-> "None"]
      [] res = "Stop" ->
            [tell |-> "StopSystem", timer |-> FALSE, break |-> FALSE,
             panic |-> "None"]
      [] res = "Done" -> [tell |-> "None", timer |-> TRUE, break |-> TRUE,
             panic |-> "None"]

\* The match of join() where a request without a watcher leaves the loop.
JoinMatchMissingWatcherExits(context, res) ==
    CASE res = "Timeout" ->
            [tell |-> "None", timer |-> FALSE, break |-> FALSE,
             panic |-> "None"]
      [] res = "Disconnected" ->
            [tell |-> "None", timer |-> FALSE, break |-> TRUE,
             panic |-> "None"]
      [] res = "Drain" ->
            IF watcher_ref(context)
            THEN [tell |-> "DrainSystem", timer |-> FALSE, break |-> FALSE,
                  panic |-> "None"]
            ELSE [tell |-> "None", timer |-> FALSE, break |-> TRUE,
                  panic |-> "None"]
      [] res = "Stop" ->
            IF watcher_ref(context)
            THEN [tell |-> "StopSystem", timer |-> FALSE, break |-> FALSE,
                  panic |-> "None"]
            ELSE [tell |-> "None", timer |-> FALSE, break |-> TRUE,
                  panic |-> "None"]
      [] res = "Done" ->
            [tell |-> "None", timer |-> timer_ref(context), break |-> TRUE,
             panic |-> "None"]

\* The match of join() on what recv_timeout returned: what is told to the
\* watcher, whether the timer is told to stop, whether the loop is left,
\* and the message of the panic when the context has no watcher.
JoinMatch(context, res) ==
    CASE res = "Timeout" ->
            [tell |-> "None", timer |-> FALSE, break |-> FALSE,
             panic |-> "None"]
      [] res = "Disconnected" ->
            [tell |-> "None", timer |-> FALSE, break |-> TRUE,
             panic |-> "None"]
      [] res = "Drain" ->
            IF watcher_ref(context)
            THEN [tell |-> "DrainSystem", timer |-> FALSE, break |-> FALSE,
                  panic |-> "None"]
            ELSE [tell |-> "None", timer |-> FALSE, break |-> FALSE,
                  panic |-> "pantomime bug: received drain request for actor without watcher_ref"]
      [] res = "Stop" ->
            IF watcher_ref(context)
            THEN [tell |-> "StopSystem", timer |-> FALSE, break |-> FALSE,
                  panic |-> "None"]
            ELSE [tell |-> "None", timer |-> FALSE, break |-> FALSE,
                  panic |-> "pantomime bug: received stop request for actor without watcher_ref"]
      [] res = "Done" ->
            [tell |-> "None", timer |-> timer_ref(context), break |-> TRUE,
             panic |-> "None"]

\* One iteration of the loop of join(): a pending shutdown signal sends
\* Drain, then a message is received or the receive times out.
JoinIteration ==
    /\ joined = "looping"
    /\ \E signal \in BOOLEAN :
        /\ signal => requests < MaxRequests
        /\ LET ch == IF signal THEN Append(channel, "Drain") ELSE channel
               res == RecvTimeout(ch)
               m == JoinMatch(active, res)
           IN  /\ res = "Timeout" => timeouts < MaxTimeouts
               /\ channel' = IF ch # <<>> THEN Tail(ch) ELSE ch
               /\ received' = IF ch # <<>> THEN Append(received, res)
                               ELSE received
               /\ timeouts' = IF res = "Timeout" THEN timeouts + 1 ELSE timeouts
               /\ requests' = IF signal THEN requests + 1 ELSE requests
               /\ watcher_mail' = IF m.tell # "None"
                                   THEN Append(watcher_mail, m.tell)
                                   ELSE watcher_mail
               /\ timer_stops' = IF m.timer THEN timer_stops + 1 ELSE timer_stops
               /\ panics' = IF m.panic # "None"
                             THEN Append(panics, m.panic) ELSE panics
               /\ joined' = IF m.panic # "None" THEN "panicked"
                             ELSE IF m.break THEN "returned" ELSE joined
    /\ UNCHANGED <<spawning, active, timer_schedules,
                   next_ids, refs, done_fns, registered,
                   system_stopped>>
    /\ UNCHANGED notSysVars

\* The watcher receives DrainSystem or StopSystem: it tells every
\* registered actor to stop and keeps the callback.
WatcherReceive ==
    /\ watcher_mail # <<>>
    /\ watcher_mail' = Tail(watcher_mail)
    /\ done_fns' = Append(done_fns, Head(watcher_mail))
    /\ UNCHANGED <<spawning, active, timer_schedules, panics,
                   next_ids, refs, channel, joined, timeouts, received,
                   requests, timer_stops, registered,
                   system_stopped>>
    /\ UNCHANGED notSysVars

\* A user actor has stopped and is no longer registered with the watcher.
ActorStopped ==
    /\ \E id \in registered : registered' = registered \ {id}
    /\ UNCHANGED <<spawning, active, timer_schedules, panics,
                   next_ids, refs, channel, joined, timeouts, received,
                   requests, timer_stops, watcher_mail, done_fns,
                   system_stopped>>
    /\ UNCHANGED notSysVars

\* No user actor is registered any more: the watcher invokes a callback it
\* holds, which sends Done; at the end of a StopSystem it stops the system
\* actors too.
WatcherDone ==
    /\ registered = {}
    /\ done_fns # <<>>
    /\ done_fns' = Tail(done_fns)
    /\ channel' = Send(channel, "Done")
    /\ system_stopped' = (system_stopped \/ Head(done_fns) = "StopSystem")
    /\ UNCHANGED <<spawning, active, timer_schedules, panics,
                   next_ids, refs, joined, timeouts, received, requests,
                   timer_stops, watcher_mail, registered>>
    /\ UNCHANGED notSysVars

SystemInit ==
    /\ MailboxVarsInit /\ DetachedVarsInit /\ RuntimeVarsInit
    /\ LogicVarsNone("none") /\ SystemVarsInit

SystemNext ==
    \/ SystemSpawn
    \/ ContextDrain
    \/ ContextStop
    \/ Join
    \/ JoinIteration
    \/ WatcherReceive
    \/ ActorStopped
    \/ WatcherDone

SystemSpec == SystemInit /\ [][SystemNext]_vars

\* join() goes on receiving what is in the channel, the watcher handles its
\* mailbox and invokes a callback once it may, and every registered user
\* actor stops in the end.
SystemFairness ==
    /\ WF_vars(JoinIteration /\ channel # <<>>)
    /\ WF_vars(WatcherReceive)
    /\ WF_vars(ActorStopped)
    /\ WF_vars(WatcherDone)

FairSystemSpec == SystemSpec /\ SystemFairness

\* ActorSystemContext::schedule_thunk: whether TimerMsg::Schedule is told to
\* the timer, and the message of the panic when the context has no timer.
schedule_thunk(context) ==
    IF timer_ref(context)
    THEN [tell |-> TRUE, panic |-> "None"]
    ELSE [tell |-> FALSE,
          panic |-> "pantomime bug: schedule_thunk called on internal context"]

\* Code that holds the context calls schedule_thunk on it.
ScheduleThunkOn(context) ==
    LET r == schedule_thunk(context)
    IN  /\ active # "none"
        /\ r.tell => timer_schedules < MaxSchedules
        /\ r.panic # "None" => Len(panics) < MaxSchedules
        /\ timer_schedules' = IF r.tell THEN timer_schedules + 1
                               ELSE timer_schedules
        /\ panics' = IF r.panic # "None" THEN Append(panics, r.panic)
                      ELSE panics
        /\ UNCHANGED <<next_ids, refs, channel, joined, timeouts, received,
                       requests, timer_stops, watcher_mail, done_fns,
                       registered, system_stopped, spawning, active>>
        /\ UNCHANGED notSysVars

ScheduleThunk == \E context \in Contexts : ScheduleThunkOn(context)

\* The actor system with join() over either context start() creates, and
\* with the calls of schedule_thunk.
ContextInit ==
    /\ MailboxVarsInit /\ DetachedVarsInit /\ RuntimeVarsInit
    /\ LogicVarsNone("none")
    /\ \E held \in Contexts : SystemVarsStarted(held)

ContextNext ==
    \/ SystemNext
    \/ ScheduleThunk

ContextSpec == ContextInit /\ [][ContextNext]_vars

\* spawn_actor in thread t, up to context.next_id.fetch_add(1): the id is
\* taken and the ActorRef of an actor with the default dispatcher is built.
SpawnFetchAdd(t) ==
    /\ active # "none"
    /\ spawning[t] = <<>>
    /\ next_ids[active] < FirstUserId + MaxIds
    /\ LET spawned == spawn_actor(next_ids, active, "Root", FALSE)
       IN  /\ next_ids' = spawned.ids
           /\ spawning' = [spawning EXCEPT ![t] = <<spawned.ref>>]
    /\ UNCHANGED <<refs, channel, joined, timeouts, received, requests,
                   timer_stops, watcher_mail, done_fns, registered,
                   system_stopped, active, timer_schedules, panics>>
    /\ UNCHANGED notSysVars

\* spawn_actor in thread t returns the ActorRef.
SpawnReturn(t) ==
    /\ spawning[t] # <<>>
    /\ refs' = refs \cup {spawning[t][1]}
    /\ registered' = registered \cup {spawning[t][1].id}
    /\ spawning' = [spawning EXCEPT ![t] = <<>>]
    /\ UNCHANGED <<next_ids, channel, joined, timeouts, received, requests,
                   timer_stops, watcher_mail, done_fns, system_stopped,
                   active, timer_schedules, panics>>
    /\ UNCHANGED notSysVars

\* Threads that spawn actors from the user context at the same time.
SpawnNext ==
    \E t \in Spawners :
        \/ SpawnFetchAdd(t)
        \/ SpawnReturn(t)

SpawnSpec == SystemInit /\ [][SpawnNext]_vars

(***************************************************************************)
(* Properties of the actor system.                                         *)
(***************************************************************************)
\* C19: every user actor has an id of at least 100 and every system actor
\* an id below 100.
ActorIdRanges ==
    \A r \in refs :
        /\ r.actor_type \in {"Root", "Child"} => r.id >= 100
        /\ r.actor_type = "System" => r.id < 100

\* C24: an actor without a custom dispatcher is on shard (id mod s) of its
\* context, or on the system shard when the context has no shards; an actor
\* with a custom dispatcher is on a shard no other actor is on; an ActorRef
\* keeps its shard, and no actor has two.
ShardAssignment ==
    /\ [](\A r \in refs :
            /\ (~r.custom /\ ShardCount(r.context) > 0) =>
                  (r.shard.kind = "shards" /\ r.shard.context = r.context
                   /\ r.shard.n = r.id % ShardCount(r.context))
            /\ (~r.custom /\ ShardCount(r.context) = 0) =>
                  (r.shard.kind = "system_shard" /\ r.shard.context = r.context)
            /\ r.custom =>
                  (r.shard.kind = "new" /\ \A q \in refs : q.shard = r.shard => q = r)
            /\ \A q \in refs :
                  (q.id = r.id /\ q.context = r.context) => q.shard = r.shard)
    /\ [][refs \subseteq refs']_vars

\* Three user actors were spawned, one with a dispatcher of its own and two
\* that share a shard of the user context; timer and watcher are on the system
\* shard of their context.
ShardAssignmentWitness ==
    /\ \E r, q, p \in UserRefs :
          /\ r.custom /\ ~q.custom /\ ~p.custom
          /\ p # q /\ p.shard = q.shard /\ q.shard.kind = "shards"
    /\ \E r \in refs : r.shard.kind = "system_shard"

\* The number of Done messages join() has received.
DoneReceived == Cardinality({i \in DOMAIN received : received[i] = "Done"})

\* C25: the timer is told to stop once for the Done join() receives and
\* never before; join() returns in that iteration, and what is queued
\* behind the first Done is never received.
TimerStoppedOnDone ==
    /\ [](/\ timer_stops = DoneReceived
          /\ timer_stops <= 1
          /\ timer_stops = 1 <=> joined = "returned")
    /\ [][joined = "returned" =>
            (received' = received /\ channel' = channel
             /\ timer_stops' = timer_stops /\ joined' = joined)]_vars

\* join() returned on the first Done while a second Done was queued
\* behind it.
TimerStoppedOnDoneWitness ==
    /\ joined = "returned"
    /\ timer_stops = 1
    /\ "Done" \in Range(channel)

\* C26 as stated: the timer and the watcher get a stop request only after
\* a Stop was received, never as a consequence of a Drain.
DrainSparesSystemActors ==
    (timer_stops > 0 \/ system_stopped) => "Stop" \in Range(received)

\* This step tells the watcher msg.
TellsWatcher(msg) == watcher_mail' = Append(watcher_mail, msg)

\* C26, amended: a Drain is passed to the watcher as DrainSystem and a Stop
\* as StopSystem, and the watcher stops the system actors only at the end
\* of a StopSystem; the timer is told to stop whenever Done is received,
\* after a Drain as after a Stop.
DrainSparesWatcherOnly ==
    /\ [](system_stopped => "Stop" \in Range(received))
    /\ [](timer_stops > 0 <=> DoneReceived > 0)
    /\ [][/\ TellsWatcher("StopSystem") =>
               (received' = Append(received, "Stop"))
          /\ TellsWatcher("DrainSystem") =>
               (received' = Append(received, "Drain"))
          /\ received' = Append(received, "Drain") => TellsWatcher("DrainSystem")
          /\ received' = Append(received, "Stop") => TellsWatcher("StopSystem")]_vars

\* After a Drain and no Stop the timer was told to stop, and the watcher
\* stopped no system actor.
DrainSparesWatcherOnlyWitness ==
    /\ received = <<"Drain", "Done">>
    /\ timer_stops = 1
    /\ ~system_stopped
    /\ requests = 1

SendsDone ==
    /\ Len(channel') = Len(channel) + 1
    /\ channel'[Len(channel')] = "Done"

\* C20: join() has returned only if the last message it received is Done
\* and it received a Drain or a Stop before; Done is sent only by a callback
\* the watcher holds, when no user actor is registered; the loop is left
\* only in an iteration that receives Done, never on Drain, Stop or a
\* timeout.
JoinReturnsAfterDone ==
    /\ [](joined = "returned" =>
            /\ received # <<>>
            /\ received[Len(received)] = "Done"
            /\ \E i \in 1..(Len(received) - 1) : received[i] \in {"Drain", "Stop"}
            /\ timer_stops > 0)
    /\ [](Len(done_fns) + Len(watcher_mail)
            + Cardinality({i \in DOMAIN channel : channel[i] = "Done"})
            + Cardinality({i \in DOMAIN received : received[i] = "Done"})
          <= Cardinality({i \in DOMAIN received : received[i] \in {"Drain", "Stop"}}))
    /\ [][SendsDone =>
            /\ registered = {}
            /\ done_fns # <<>>
            /\ done_fns' = Tail(done_fns)]_vars
    /\ [][(joined = "looping" /\ joined' = "returned") =>
            (channel # <<>> /\ Head(channel) = "Done")]_vars

\* join() saw a timeout and a Drain, a user actor was spawned and stopped,
\* and join() returned.
JoinReturnsAfterDoneWitness ==
    /\ joined = "returned"
    /\ timeouts > 0
    /\ "Drain" \in Range(received)
    /\ UserRefs # {}

\* The ActorRefs spawn_actor has built: those returned and those of the
\* calls under way.
BuiltRefs ==
    refs \cup {spawning[t][1] : t \in {u \in Spawners : spawning[u] # <<>>}}

\* C33: the ids spawn_actor hands out in one started system are pairwise
\* distinct, so no user actor has the id of the timer or of the watcher.
UniqueActorIds ==
    Cardinality({r.id : r \in BuiltRefs}) = Cardinality(BuiltRefs)

\* join() has just received msg.
JoinReceives(msg) ==
    /\ joined = "looping"
    /\ received' = Append(received, msg)

\* What join() tells the watcher for a request.
WatcherMsgFor(msg) == IF msg = "Drain" THEN "DrainSystem" ELSE "StopSystem"

\* The panic of join() for a request.
JoinPanicFor(msg) ==
    IF msg = "Drain"
    THEN "pantomime bug: received drain request for actor without watcher_ref"
    ELSE "pantomime bug: received stop request for actor without watcher_ref"

\* C34: join() over a context without a watcher panics when it receives
\* Drain or Stop: it tells nobody, does not return and does not drop the
\* request silently; schedule_thunk on a context without a timer panics and
\* tells nobody; with the reference present, join() tells the watcher one
\* DrainSystem or StopSystem per request and schedule_thunk tells the timer
\* one Schedule per call, and neither panics.
MissingCollaboratorsFatal ==
    /\ [][\A msg \in {"Drain", "Stop"} :
            JoinReceives(msg) =>
                IF watcher_ref(active)
                THEN /\ watcher_mail' = Append(watcher_mail, WatcherMsgFor(msg))
                     /\ panics' = panics
                     /\ joined' = "looping"
                ELSE /\ watcher_mail' = watcher_mail
                     /\ panics' = Append(panics, JoinPanicFor(msg))
                     /\ joined' = "panicked"]_vars
    /\ [][\A context \in Contexts :
            ScheduleThunkOn(context) =>
                IF timer_ref(context)
                THEN /\ timer_schedules' = timer_schedules + 1
                     /\ panics' = panics
                ELSE /\ timer_schedules' = timer_schedules
                     /\ panics' = Append(panics,
                          "pantomime bug: schedule_thunk called on internal context")]_vars
    /\ [](joined = "panicked" <=>
            \E i \in DOMAIN panics :
                panics[i] \in {JoinPanicFor("Drain"), JoinPanicFor("Stop")})
    /\ [](watcher_ref(active) => joined # "panicked")
    /\ [][(joined = "panicked") => (joined' = "panicked"
                                    /\ watcher_mail' = watcher_mail
                                    /\ timer_stops' = timer_stops)]_vars

\* join() over the context without a watcher has panicked on a request, a
\* call of schedule_thunk has told the timer and another has panicked.
MissingCollaboratorsFatalWitness ==
    /\ joined = "panicked"
    /\ ~watcher_ref(active)
    /\ timer_schedules >= 1
    /\ \E i \in DOMAIN panics :
          panics[i] = "pantomime bug: schedule_thunk called on internal context"

====
